---- MODULE Spec2Model ----
(***************************************************************************)
(* Content-addressable file index of photo-toolkit: DBMIndexer             *)
(* (src/core/indexer/dbm_indexer.py) over BaseIndexer                      *)
(* (src/core/indexer/base_indexer.py) and HashLibHasher                    *)
(* (src/core/indexer/hasher.py).                                           *)
(*                                                                         *)
(* Python str and bytes values are sequences of numbers: a str is its      *)
(* sequence of Unicode scalar values, a bytes object its sequence of       *)
(* octets.  None is the one-element sequence <<-1>>, which is neither.     *)
(***************************************************************************)
EXTENDS Integers, Sequences, FiniteSets, TLC

None == << -1 >>

(***************************************************************************)
(* str.encode('utf-8') / bytes.decode('utf-8'), for scalar values below    *)
(* U+10000 (one-, two- and three-octet forms).                             *)
(***************************************************************************)
EncodeChar(c) ==
  IF c < 128 THEN << c >>
  ELSE IF c < 2048 THEN << 192 + (c \div 64), 128 + (c % 64) >>
  ELSE << 224 + (c \div 4096), 128 + ((c \div 64) % 64), 128 + (c % 64) >>

RECURSIVE encode(_)
encode(s) ==
  IF s = << >> THEN << >> ELSE EncodeChar(Head(s)) \o encode(Tail(s))

RECURSIVE decode(_)
decode(b) ==
  IF b = << >> THEN << >>
  ELSE IF b[1] < 128 THEN << b[1] >> \o decode(SubSeq(b, 2, Len(b)))
  ELSE IF b[1] < 224
    THEN << (b[1] - 192) * 64 + (b[2] - 128) >> \o decode(SubSeq(b, 3, Len(b)))
  ELSE << (b[1] - 224) * 4096 + (b[2] - 128) * 64 + (b[3] - 128) >>
         \o decode(SubSeq(b, 4, Len(b)))

(***************************************************************************)
(* pathlib.PurePosixPath (Python 3.11): a path is [root, names]; root is   *)
(* "", "/" or "//", names are the components with "" and "." dropped.      *)
(* ".." is kept: pathlib is purely lexical.                                *)
(***************************************************************************)
RECURSIVE SplitSlash(_, _)
SplitSlash(s, cur) ==
  IF s = << >> THEN << cur >>
  ELSE IF Head(s) = 47 THEN << cur >> \o SplitSlash(Tail(s), << >>)
  ELSE SplitSlash(Tail(s), Append(cur, Head(s)))

RECURSIVE DropEmptyAndDot(_)
DropEmptyAndDot(segs) ==
  IF segs = << >> THEN << >>
  ELSE IF Head(segs) = << >> \/ Head(segs) = << 46 >>
    THEN DropEmptyAndDot(Tail(segs))
  ELSE << Head(segs) >> \o DropEmptyAndDot(Tail(segs))

PathRoot(s) ==
  IF Len(s) >= 1 /\ s[1] = 47
    THEN IF Len(s) >= 2 /\ s[2] = 47 /\ ~(Len(s) >= 3 /\ s[3] = 47)
           THEN << 47, 47 >> ELSE << 47 >>
    ELSE << >>

Path(s) == [root |-> PathRoot(s), names |-> DropEmptyAndDot(SplitSlash(s, << >>))]

RECURSIVE JoinSlash(_)
JoinSlash(names) ==
  IF names = << >> THEN << >>
  ELSE IF Len(names) = 1 THEN Head(names)
  ELSE Head(names) \o << 47 >> \o JoinSlash(Tail(names))

\* str(path)
PathStr(p) ==
  IF p.root = << >> /\ p.names = << >> THEN << 46 >>
  ELSE p.root \o JoinSlash(p.names)

\* path.parent
PathParent(p) ==
  IF p.names = << >> THEN p
  ELSE [root |-> p.root, names |-> SubSeq(p.names, 1, Len(p.names) - 1)]

\* path / name, for a name without separators
PathJoin(p, name) == [root |-> p.root, names |-> DropEmptyAndDot(p.names \o << name >>)]

AbsParts(p) == IF p.root = << >> THEN p.names ELSE << p.root >> \o p.names

\* path.relative_to(other): [exc, val]; ValueError unless other's parts are a
\* prefix of path's parts.
relative_to(p, other) ==
  LET mine == AbsParts(p)
      to   == AbsParts(other)
      n    == Len(to)
      bad  == IF n = 0 THEN p.root # << >>
              ELSE Len(mine) < n \/ SubSeq(mine, 1, n) # to
  IN  IF bad THEN [exc |-> "ValueError", val |-> None]
      ELSE [exc |-> "none",
            val |-> PathStr([root |-> << >>, names |-> SubSeq(mine, n + 1, Len(mine))])]


(***************************************************************************)
(* The files the callers present.  Content(p) is the identity of the byte  *)
(* content of the file named p, 0 when the file cannot be read.            *)
(*   /b/a  /b/s/a  /o/x : the same bytes      /b/e-acute : other bytes     *)
(*   /b/m : missing or unreadable                                          *)
(***************************************************************************)
FileA == << 47, 98, 47, 97 >>
FileSA == << 47, 98, 47, 115, 47, 97 >>
FileE == << 47, 98, 47, 233 >>
FileX == << 47, 111, 47, 120 >>
FileM == << 47, 98, 47, 109 >>
Files == { FileA, FileSA, FileE, FileX, FileM }

\* Other spellings a caller may give: /b/s/../a (the file /b/a),
\* /b/s/../../o/x (the file /o/x) and a (the file /b/a for a process whose
\* current directory is /b).
Spelled ==
  [up |-> << 47, 98, 47, 115, 47, 46, 46, 47, 97 >>,
   out |-> << 47, 98, 47, 115, 47, 46, 46, 47, 46, 46, 47, 111, 47, 120 >>,
   rel |-> << 97 >>]

Content(p) ==
  CASE p = FileA -> 1
    [] p = FileSA -> 1
    [] p = FileX -> 1
    [] p = FileE -> 2
    [] p = Spelled.up -> 1
    [] p = Spelled.out -> 1
    [] p = Spelled.rel -> 1
    [] OTHER -> 0

\* hash_obj.hexdigest(): a lowercase hexadecimal str, a function of the bytes
\* alone ("d1", "d2").
hexdigest(c) == << 100, 48 + c >>

Digests == { hexdigest(1), hexdigest(2) }
HashArgs == Digests \cup { None }
PathArgs == Files \cup { None }

\* HashLibHasher.calculate: [exc, val]
calculate(file_path) ==
  IF Content(file_path) = 0 THEN [exc |-> "OSError", val |-> None]
  ELSE [exc |-> "none", val |-> hexdigest(Content(file_path))]

\* The instance under study, as BaseIndexer.create builds it.
work_dir == << 47, 98 >>
filename == << 105 >>
db_path == PathStr(PathJoin(Path(work_dir), filename))
base_dir == PathStr(PathParent(Path(db_path)))

\* _db is None or the handle dbm.open returned.
Handle == << 0 >>

\* The dbm modules dbm.open can resolve to: dbm.dumb is a MutableMapping,
\* dbm.gnu and dbm.ndbm objects have no items().
Backends == { "dumb", "gnu" }
HasItems(module) == module = "dumb"

\* The mapping interface of an open dbm object over the file's content, a
\* function from key bytes to value bytes.  str keys are stored as UTF-8.
EmptyStore == [k \in {} |-> << >>]
Key(file_hash) == encode(file_hash)
Put(st, k, v) == [kk \in (DOMAIN st) \cup {k} |-> IF kk = k THEN v ELSE st[kk]]
Del(st, k) == [kk \in (DOMAIN st) \ {k} |-> st[kk]]

\* What one call did: the exception it raised ("none" if it returned), its
\* boolean and str results, the items list() returned, the file content after
\* it, whether it invoked the hasher and whether it accessed the backing store.
Result(exc, flag, val, items, st, hashed, touched) ==
  [exc |-> exc, flag |-> flag, val |-> val, items |-> items, store |-> st,
   hashed |-> hashed, touched |-> touched]

_get_relative_path(file_path) == relative_to(Path(file_path), Path(base_dir))

\* [exc, store]
_add_with_hash(st, file_path, file_hash) ==
  LET relative_path == _get_relative_path(file_path)
  IN  IF relative_path.exc # "none" THEN [exc |-> relative_path.exc, store |-> st]
      ELSE [exc |-> "none", store |-> Put(st, Key(file_hash), encode(relative_path.val))]

\* add that keeps the entry a digest already has.
add_keep_existing(db, st, file_path, file_hash) ==
  IF db = None THEN Result("RuntimeError", FALSE, None, << >>, st, FALSE, FALSE)
  ELSE
    LET h == IF file_hash = None THEN calculate(file_path)
             ELSE [exc |-> "none", val |-> file_hash]
        hashed == file_hash = None
    IN  IF h.exc # "none" THEN Result(h.exc, FALSE, None, << >>, st, hashed, FALSE)
        ELSE IF Key(h.val) \in DOMAIN st
          THEN Result("none", FALSE, h.val, << >>, st, hashed, TRUE)
        ELSE
          LET w == _add_with_hash(st, file_path, h.val)
          IN  IF w.exc # "none" THEN Result(w.exc, FALSE, None, << >>, st, hashed, FALSE)
              ELSE Result("none", FALSE, h.val, << >>, w.store, hashed, TRUE)

add(db, st, file_path, file_hash) ==
  IF db = None THEN Result("RuntimeError", FALSE, None, << >>, st, FALSE, FALSE)
  ELSE
    LET h == IF file_hash = None THEN calculate(file_path)
             ELSE [exc |-> "none", val |-> file_hash]
        hashed == file_hash = None
    IN  IF h.exc # "none" THEN Result(h.exc, FALSE, None, << >>, st, hashed, FALSE)
        ELSE
          LET w == _add_with_hash(st, file_path, h.val)
          IN  IF w.exc # "none" THEN Result(w.exc, FALSE, None, << >>, st, hashed, FALSE)
              ELSE Result("none", FALSE, h.val, << >>, w.store, hashed, TRUE)

\* _get_hash that hashes the file whenever a path is given.
_get_hash_path_first(file_path, file_hash) ==
  IF file_path # None
    THEN LET h == calculate(file_path)
         IN  [exc |-> h.exc, val |-> h.val, hashed |-> TRUE]
    ELSE IF file_hash = None
      THEN [exc |-> "ValueError", val |-> None, hashed |-> FALSE]
    ELSE [exc |-> "none", val |-> file_hash, hashed |-> FALSE]

\* _get_hash without the test of file_path.
_get_hash_unchecked(file_path, file_hash) ==
  IF file_hash = None
    THEN LET h == calculate(file_path)
         IN  [exc |-> h.exc, val |-> h.val, hashed |-> TRUE]
    ELSE [exc |-> "none", val |-> file_hash, hashed |-> FALSE]

\* [exc, val, hashed]
_get_hash(file_path, file_hash) ==
  IF file_hash = None
    THEN IF file_path = None THEN [exc |-> "ValueError", val |-> None, hashed |-> FALSE]
         ELSE LET h == calculate(file_path)
              IN  [exc |-> h.exc, val |-> h.val, hashed |-> TRUE]
    ELSE [exc |-> "none", val |-> file_hash, hashed |-> FALSE]

\* get without the except clause: a miss raises KeyError.
get_raising(db, st, file_path, file_hash) ==
  IF db = None THEN Result("RuntimeError", FALSE, None, << >>, st, FALSE, FALSE)
  ELSE
    LET h == _get_hash(file_path, file_hash)
    IN  IF h.exc # "none" THEN Result(h.exc, FALSE, None, << >>, st, h.hashed, FALSE)
        ELSE IF Key(h.val) \in DOMAIN st
          THEN Result("none", FALSE, decode(st[Key(h.val)]), << >>, st, h.hashed, TRUE)
        ELSE Result("KeyError", FALSE, None, << >>, st, h.hashed, TRUE)

get(db, st, file_path, file_hash) ==
  IF db = None THEN Result("RuntimeError", FALSE, None, << >>, st, FALSE, FALSE)
  ELSE
    LET h == _get_hash(file_path, file_hash)
    IN  IF h.exc # "none" THEN Result(h.exc, FALSE, None, << >>, st, h.hashed, FALSE)
        ELSE IF Key(h.val) \in DOMAIN st
          THEN Result("none", FALSE, decode(st[Key(h.val)]), << >>, st, h.hashed, TRUE)
        ELSE Result("none", FALSE, None, << >>, st, h.hashed, TRUE)

\* exists without the test of _db: an instance that is not open has no entry.
exists_unchecked(db, st, file_path, file_hash) ==
  LET h == _get_hash(file_path, file_hash)
  IN  IF h.exc # "none" THEN Result(h.exc, FALSE, None, << >>, st, h.hashed, FALSE)
      ELSE Result("none", db # None /\ Key(h.val) \in DOMAIN st, None, << >>, st,
                  h.hashed, db # None)

exists(db, st, file_path, file_hash) ==
  IF db = None THEN Result("RuntimeError", FALSE, None, << >>, st, FALSE, FALSE)
  ELSE
    LET h == _get_hash(file_path, file_hash)
    IN  IF h.exc # "none" THEN Result(h.exc, FALSE, None, << >>, st, h.hashed, FALSE)
        ELSE Result("none", Key(h.val) \in DOMAIN st, None, << >>, st, h.hashed, TRUE)

\* remove that returns the digest whether or not an entry was deleted.
remove_returns_hash(db, st, file_path, file_hash) ==
  IF db = None THEN Result("RuntimeError", FALSE, None, << >>, st, FALSE, FALSE)
  ELSE
    LET h == _get_hash(file_path, file_hash)
    IN  IF h.exc # "none" THEN Result(h.exc, FALSE, None, << >>, st, h.hashed, FALSE)
        ELSE Result("none", FALSE, h.val, << >>, Del(st, Key(h.val)), h.hashed, TRUE)

remove(db, st, file_path, file_hash) ==
  IF db = None THEN Result("RuntimeError", FALSE, None, << >>, st, FALSE, FALSE)
  ELSE
    LET h == _get_hash(file_path, file_hash)
    IN  IF h.exc # "none" THEN Result(h.exc, FALSE, None, << >>, st, h.hashed, FALSE)
        ELSE IF Key(h.val) \in DOMAIN st
          THEN Result("none", FALSE, h.val, << >>, Del(st, Key(h.val)), h.hashed, TRUE)
        ELSE Result("none", FALSE, None, << >>, st, h.hashed, TRUE)

\* add_if_absent without the membership test.
add_if_absent_always(db, st, file_path, file_hash) ==
  IF db = None THEN Result("RuntimeError", FALSE, None, << >>, st, FALSE, FALSE)
  ELSE
    LET h == IF file_hash = None THEN calculate(file_path)
             ELSE [exc |-> "none", val |-> file_hash]
        hashed == file_hash = None
    IN  IF h.exc # "none" THEN Result(h.exc, FALSE, None, << >>, st, hashed, FALSE)
        ELSE
          LET w == _add_with_hash(st, file_path, h.val)
          IN  IF w.exc # "none" THEN Result(w.exc, FALSE, None, << >>, st, hashed, TRUE)
              ELSE Result("none", TRUE, h.val, << >>, w.store, hashed, TRUE)

\* add_if_absent that reports a duplicate and still records the new path.
add_if_absent_refresh(db, st, file_path, file_hash) ==
  IF db = None THEN Result("RuntimeError", FALSE, None, << >>, st, FALSE, FALSE)
  ELSE
    LET h == IF file_hash = None THEN calculate(file_path)
             ELSE [exc |-> "none", val |-> file_hash]
        hashed == file_hash = None
    IN  IF h.exc # "none" THEN Result(h.exc, FALSE, None, << >>, st, hashed, FALSE)
        ELSE
          LET w == _add_with_hash(st, file_path, h.val)
          IN  IF w.exc # "none" THEN Result(w.exc, FALSE, None, << >>, st, hashed, TRUE)
              ELSE Result("none", Key(h.val) \notin DOMAIN st, h.val, << >>, w.store,
                          hashed, TRUE)

add_if_absent(db, st, file_path, file_hash) ==
  IF db = None THEN Result("RuntimeError", FALSE, None, << >>, st, FALSE, FALSE)
  ELSE
    LET h == IF file_hash = None THEN calculate(file_path)
             ELSE [exc |-> "none", val |-> file_hash]
        hashed == file_hash = None
    IN  IF h.exc # "none" THEN Result(h.exc, FALSE, None, << >>, st, hashed, FALSE)
        ELSE IF Key(h.val) \in DOMAIN st
          THEN Result("none", FALSE, h.val, << >>, st, hashed, TRUE)
        ELSE
          LET w == _add_with_hash(st, file_path, h.val)
          IN  IF w.exc # "none" THEN Result(w.exc, FALSE, None, << >>, st, hashed, TRUE)
              ELSE Result("none", TRUE, h.val, << >>, w.store, hashed, TRUE)

\* The limit argument of list(): n is None, or an int.
NoLimit == [none |-> TRUE, val |-> 0]
Limit(k) == [none |-> FALSE, val |-> k]

\* The orders in which a dbm object may enumerate the keys in S.
Orders(S) ==
  { o \in [1..Cardinality(S) -> S] : \A i, j \in 1..Cardinality(S) : o[i] = o[j] => i = j }

\* The for loop of list(): append, then test the limit.
RECURSIVE ListLoop(_, _, _, _)
ListLoop(st, order, n, items) ==
  IF order = << >> THEN items
  ELSE
    LET k == Head(order)
        items2 == Append(items, << decode(k), decode(st[k]) >>)
    IN  IF ~n.none /\ Len(items2) >= n.val THEN items2
        ELSE ListLoop(st, Tail(order), n, items2)

\* list(n); `not self._db` is true for None and for a mapping of length 0.
list(db, st, module, order, n) ==
  IF db = None \/ Cardinality(DOMAIN st) = 0
    THEN Result("RuntimeError", FALSE, None, << >>, st, FALSE, db # None)
  ELSE IF ~HasItems(module)
    THEN Result("AttributeError", FALSE, None, << >>, st, FALSE, TRUE)
  ELSE Result("none", FALSE, None, ListLoop(st, order, n, << >>), st, FALSE, TRUE)

\* open(): [exc, db]; dbm.open(path, 'c') returns a handle on the file at
\* db_path, or raises when the location cannot be created or opened.
open(db, can_open) ==
  IF can_open THEN [exc |-> "none", db |-> Handle]
  ELSE [exc |-> "OSError", db |-> db]

\* close() that closes the handle and keeps referring to it.
close_keeps_handle(db) == db

\* close()
close(db) == None

\* __enter__: [exc, db]
__enter__(db, can_open) == open(db, can_open)

\* __exit__ that returns a true value.
__exit__suppressing(db, exc_type) == [db |-> close(db), suppress |-> TRUE]

\* __exit__: closes and returns None, which is false: the exception passed in
\* is not suppressed.
__exit__(db, exc_type) == [db |-> close(db), suppress |-> FALSE]

(***************************************************************************)
(* URI construction and the backend registry (base_indexer.py).            *)
(***************************************************************************)
\* The str literals of the source, and the tokens and names the callers use
\* ("zip": a scheme that is not registered at import, "x": no algorithm).
Str ==
  [dbm |-> << 100, 98, 109 >>, zip |-> << 122, 105, 112 >>,
   md5 |-> << 109, 100, 53 >>, sha1 |-> << 115, 104, 97, 49 >>,
   sha256 |-> << 115, 104, 97, 50, 53, 54 >>, sha512 |-> << 115, 104, 97, 53, 49, 50 >>,
   x |-> << 120 >>, sep |-> << 58, 47, 47 >>, plus |-> << 43 >>, slash |-> << 47 >>,
   backslash |-> << 92 >>, comma |-> << 44, 32 >>, db |-> << 46, 100, 98 >>,
   dir |-> << 46, 100, 105, 114 >>,
   hash_index |-> << 104, 97, 115, 104, 46, 105, 110, 100, 101, 120 >>,
   f |-> << 102, 58 >>, h |-> << 104, 58 >>, underscore |-> << 95 >>, dups |-> << 100, 117, 112, 115 >>]

\* A str, as opposed to None or another object.
IsStr(v) == \A i \in DOMAIN v : v[i] >= 0

\* s.find(sub): the least index (from 1) at which sub occurs in s, 0 if none.
find(s, sub) ==
  LET at == { i \in 1..(Len(s) - Len(sub) + 1) : SubSeq(s, i, i + Len(sub) - 1) = sub }
  IN  IF at = {} THEN 0 ELSE CHOOSE i \in at : \A j \in at : i <= j

\* sub in s
contains(s, sub) == find(s, sub) # 0

\* s.split(sub, 1): << s >>, or << before, after >> the first occurrence.
split1(s, sub) ==
  LET i == find(s, sub)
  IN  IF i = 0 THEN << s >>
      ELSE << SubSeq(s, 1, i - 1), SubSeq(s, i + Len(sub), Len(s)) >>

\* ', '.join(names)
RECURSIVE join(_)
join(names) ==
  IF names = << >> THEN << >>
  ELSE IF Len(names) = 1 THEN Head(names)
  ELSE Head(names) \o Str.comma \o join(Tail(names))

\* An exception: its type, the text of its message with the places of the
\* interpolated values, and those values.
Raise(type, msg, values) == [type |-> type, msg |-> msg, values |-> values]
NoExc == Raise("none", "", << >>)

\* _indexer_types, a dict: the sequence of its (scheme, class) items in
\* insertion order.
keys(types) == [i \in DOMAIN types |-> types[i].scheme]
HasKey(types, scheme) == \E i \in DOMAIN types : types[i].scheme = scheme
Lookup(types, scheme) == types[CHOOSE i \in DOMAIN types : types[i].scheme = scheme].cls

\* register that keeps the class a scheme is already bound to.
register_first_wins(types, scheme, indexer_cls) ==
  IF HasKey(types, scheme) THEN types
  ELSE Append(types, [scheme |-> scheme, cls |-> indexer_cls])

\* register: cls._indexer_types[scheme] = indexer_cls
register(types, scheme, indexer_cls) ==
  IF HasKey(types, scheme)
    THEN [i \in DOMAIN types |->
            IF types[i].scheme = scheme THEN [scheme |-> scheme, cls |-> indexer_cls]
            ELSE types[i]]
  ELSE Append(types, [scheme |-> scheme, cls |-> indexer_cls])

\* parse_uri that takes the scheme part for the scheme whatever it holds.
parse_uri_whole_scheme(uri) ==
  LET bad == [exc |-> Raise("ValueError", "Invalid URI format: {uri}", << uri >>),
              scheme |-> None, filename |-> None, hash_algorithm |-> None]
  IN  IF ~contains(uri, Str.sep) THEN bad
      ELSE
        LET parts == split1(uri, Str.sep)
        IN  IF parts[1] = << >> \/ parts[2] = << >> THEN bad
            ELSE [exc |-> NoExc, scheme |-> parts[1], filename |-> parts[2],
                  hash_algorithm |-> Str.sha256]

\* parse_uri: [exc, scheme, filename, hash_algorithm]; every failure is
\* re-raised as ValueError("Invalid URI format: {uri}").
parse_uri(uri) ==
  LET bad == [exc |-> Raise("ValueError", "Invalid URI format: {uri}", << uri >>),
              scheme |-> None, filename |-> None, hash_algorithm |-> None]
  IN  IF ~contains(uri, Str.sep) THEN bad
      ELSE
        LET parts == split1(uri, Str.sep)
            scheme_part == parts[1]
            fname == parts[2]
        IN  IF scheme_part = << >> \/ fname = << >> THEN bad
            ELSE
              LET scheme_parts == split1(scheme_part, Str.plus)
              IN  [exc |-> NoExc,
                   scheme |-> scheme_parts[1],
                   filename |-> fname,
                   hash_algorithm |-> IF Len(scheme_parts) > 1 THEN scheme_parts[2]
                                      ELSE Str.sha256]

\* HashLibHasher.ALGORITHMS, in the order of the dict.
ALGORITHMS == << Str.md5, Str.sha1, Str.sha256, Str.sha512 >>
Supported(algorithm) == \E i \in DOMAIN ALGORITHMS : ALGORITHMS[i] = algorithm

\* HashLibHasher.__init__ without the test of the algorithm.
HashLibHasher_unchecked(algorithm) == [exc |-> NoExc, algorithm |-> algorithm]

\* HashLibHasher.__init__: [exc, algorithm]
HashLibHasher(algorithm) ==
  IF ~Supported(algorithm)
    THEN [exc |-> Raise("ValueError",
                        "Unsupported hash algorithm: {algorithm}. Supported algorithms: {join}",
                        << algorithm, join(ALGORITHMS) >>),
          algorithm |-> None]
  ELSE [exc |-> NoExc, algorithm |-> algorithm]

\* HashLibHasher.calculate for the configured algorithm: [exc, val].  The
\* digests of different algorithms differ.
calculate_with(algorithm, file_path) ==
  IF algorithm = Str.sha256 THEN calculate(file_path)
  ELSE IF Content(file_path) = 0 THEN [exc |-> "OSError", val |-> None]
  ELSE [exc |-> "none", val |-> << algorithm[Len(algorithm)], 48 + Content(file_path) >>]

\* No instance.
NoIndexer == [cls |-> "none", db_path |-> None, algorithm |-> None, base_dir |-> None]

\* BaseIndexer.__init__, and DBMIndexer.__init__ which adds _base_dir: the
\* instance, not opened.
Indexer(cls, path, hasher) ==
  [cls |-> cls, db_path |-> path, algorithm |-> hasher.algorithm,
   base_dir |-> IF cls = "DBMIndexer" THEN PathStr(PathParent(Path(path))) ELSE None]

Failed(exc) == [exc |-> exc, inst |-> NoIndexer]

\* create without the test of the filename: the path is joined as pathlib
\* joins it, an absolute filename replacing work_dir.
create_any_filename(types, uri, wdir) ==
  LET p == parse_uri(uri)
  IN  IF p.exc.type # "none" THEN Failed(p.exc)
      ELSE IF ~HasKey(types, p.scheme)
        THEN Failed(Raise("ValueError", "Unsupported URI scheme: {scheme}", << p.scheme >>))
      ELSE IF ~IsStr(wdir)
        THEN Failed(Raise("TypeError", "expected str, bytes or os.PathLike object", << >>))
      ELSE
        LET joined == IF Head(p.filename) = 47 THEN p.filename
                      ELSE wdir \o Str.slash \o p.filename
            path == PathStr(Path(joined))
            hasher == HashLibHasher(p.hash_algorithm)
        IN  IF hasher.exc.type # "none" THEN Failed(hasher.exc)
            ELSE [exc |-> NoExc, inst |-> Indexer(Lookup(types, p.scheme), path, hasher)]

\* create that keeps one backing file per digest algorithm.
create_per_algorithm(types, uri, wdir) ==
  LET p == parse_uri(uri)
  IN  IF p.exc.type # "none" THEN Failed(p.exc)
      ELSE IF ~HasKey(types, p.scheme)
        THEN Failed(Raise("ValueError", "Unsupported URI scheme: {scheme}", << p.scheme >>))
      ELSE IF contains(p.filename, Str.slash) \/ contains(p.filename, Str.backslash)
        THEN Failed(Raise("ValueError",
                          "URI should only contain filename without path: {filename}",
                          << p.filename >>))
      ELSE IF ~IsStr(wdir)
        THEN Failed(Raise("TypeError", "expected str, bytes or os.PathLike object", << >>))
      ELSE
        LET path == PathStr(PathJoin(Path(wdir), p.filename \o << 46 >> \o p.hash_algorithm))
            hasher == HashLibHasher(p.hash_algorithm)
        IN  IF hasher.exc.type # "none" THEN Failed(hasher.exc)
            ELSE [exc |-> NoExc, inst |-> Indexer(Lookup(types, p.scheme), path, hasher)]

\* create(uri, work_dir): [exc, inst]; wdir is the argument work_dir.
create(types, uri, wdir) ==
  LET p == parse_uri(uri)
  IN  IF p.exc.type # "none" THEN Failed(p.exc)
      ELSE IF ~HasKey(types, p.scheme)
        THEN Failed(Raise("ValueError", "Unsupported URI scheme: {scheme}", << p.scheme >>))
      ELSE IF contains(p.filename, Str.slash) \/ contains(p.filename, Str.backslash)
        THEN Failed(Raise("ValueError",
                          "URI should only contain filename without path: {filename}",
                          << p.filename >>))
      ELSE IF ~IsStr(wdir)
        THEN Failed(Raise("TypeError", "expected str, bytes or os.PathLike object", << >>))
      ELSE
        LET path == PathStr(PathJoin(Path(wdir), p.filename))
            hasher == HashLibHasher(p.hash_algorithm)
        IN  IF hasher.exc.type # "none" THEN Failed(hasher.exc)
            ELSE [exc |-> NoExc, inst |-> Indexer(Lookup(types, p.scheme), path, hasher)]

\* The files of the disk: a function from the path of a file to its content.
\* A dbm.gnu database at path is the one file path; a dbm.dumb database is
\* path.dir with its companions path.dat and path.bak, which are created and
\* removed with it.  The content of that file is the mapping it holds.
MainFile(mod, path) == IF mod = "gnu" THEN path ELSE path \o Str.dir

\* The file a path names for a process whose current directory is dir.
Abs(dir, path) ==
  IF path # << >> /\ Head(path) = 47 THEN PathStr(Path(path))
  ELSE PathStr(Path(dir \o Str.slash \o path))

\* Path(path).resolve() for a process whose current directory is dir, in a
\* tree without symbolic links: the absolute path with every '..' taken.
RECURSIVE Collapse(_, _)
Collapse(names, acc) ==
  IF names = << >> THEN acc
  ELSE IF Head(names) = << 46, 46 >>
    THEN Collapse(Tail(names), IF acc = << >> THEN acc ELSE SubSeq(acc, 1, Len(acc) - 1))
  ELSE Collapse(Tail(names), Append(acc, Head(names)))

resolve(dir, path) ==
  LET p == Path(Abs(dir, path))
  IN  PathStr([root |-> p.root, names |-> Collapse(p.names, << >>)])

\* os.remove(path): [exc, files]
os_remove(files, dir, path) ==
  IF Abs(dir, path) \in DOMAIN files
    THEN [exc |-> "none", files |-> [f \in (DOMAIN files) \ { Abs(dir, path) } |-> files[f]]]
  ELSE [exc |-> "OSError", files |-> files]

\* DBMIndexer.cleanup(path): the files after it.  Both removals are in one
\* try block; OSError is passed over.
cleanup(files, dir, path) ==
  LET first == os_remove(files, dir, path)
  IN  IF first.exc # "none" THEN files
      ELSE os_remove(first.files, dir, path \o Str.db).files

\* cleanup_uri(uri): [exc, cls, path, files]; cls and path are the class whose
\* cleanup is called and the path handed to it.
cleanup_uri(types, files, dir, uri) ==
  LET p == parse_uri(uri)
  IN  IF p.exc.type # "none"
        THEN [exc |-> p.exc, cls |-> "none", path |-> None, files |-> files]
      ELSE IF ~HasKey(types, p.scheme)
        THEN [exc |-> Raise("ValueError",
                            "Unsupported indexer type: {scheme}. Supported types: {join}",
                            << p.scheme, join(keys(types)) >>),
              cls |-> "none", path |-> None, files |-> files]
      ELSE [exc |-> NoExc, cls |-> Lookup(types, p.scheme), path |-> p.filename,
            files |-> IF Lookup(types, p.scheme) = "DBMIndexer"
                        THEN cleanup(files, dir, p.filename) ELSE files]

(***************************************************************************)
(* State.                                                                  *)
(*   _db      the instance's handle                                        *)
(*   store    the content of the backing file at db_path                   *)
(*   module   the dbm module of this build                                 *)
(*   scope    position of the caller with respect to a `with indexer:`     *)
(*            block: "none" outside, "body" inside, "raised" when the body *)
(*            has raised and __exit__ has not run yet                      *)
(* History, read by the properties only:                                   *)
(*   last     the last call, its arguments and its Result                  *)
(*   before   _db, store and gone as they were when that call started      *)
(*   run      for one digest run.d, the add_if_absent calls presenting it  *)
(*            that have returned since the last add or remove call: how    *)
(*            many (n, up to MaxCalls), whether the digest was unrecorded  *)
(*            when the run started (fresh), and the file the first of them *)
(*            presented                                                    *)
(*   gone     whether a remove call for the digest run.d has returned      *)
(*            since the last add or add_if_absent call: "no", or what the  *)
(*            first such call met, "was_recorded" or "was_absent"          *)
(*   was_closed   close() has been called on the open instance             *)
(*   body_exc     the exception that left the body of the last with block  *)
(* run and gone are recorded by the specification SpecRuns only, scope,    *)
(* was_closed and body_exc by SpecLife only.                               *)
(***************************************************************************)
VARIABLES _db, store, module, scope, last, before, run, gone, was_closed, body_exc

\* The instance under study and the history of its calls.
index == << _db, store, module, scope, last, before, run, gone, was_closed, body_exc >>

(***************************************************************************)
(* The bulk tools: build_hash_index.py, relocate.py and import.py.  They   *)
(* walk a directory and register each media file.  The first two keep the  *)
(* database hash.index through dbm directly, with two entries per file:    *)
(* 'f:<path>' -> digest and 'h:<digest>' -> path.  The media suffix that   *)
(* every file of a run carries is left out of the file names.              *)
(***************************************************************************)
fkey(rel_path) == encode(Str.f \o rel_path)
hkey(file_hash) == encode(Str.h \o file_hash)

\* os.path.join(work_dir, "hash.index")
index_path(dir) == PathStr(PathJoin(Path(dir), Str.hash_index))

\* os.path.relpath(full_path, work_dir), for a file under work_dir
relpath(full_path, dir) == relative_to(Path(full_path), Path(dir)).val

\* os.path.basename(file_path)
basename(file_path) == Path(file_path).names[Len(Path(file_path).names)]

\* os.path.join(dups_path, file_name), the duplicates directory being
\* <work_dir>/dups
dup_path(name) == work_dir \o Str.slash \o Str.dups \o Str.slash \o name

\* The bytes open(file_path, "rb") reads, dups being the duplicates directory
\* (name -> the file moved there): 0 when the file is unreadable or is no
\* longer at file_path.
Read(dups, file_path) ==
  IF \E n \in DOMAIN dups : dup_path(n) = file_path
    THEN Content(dups[CHOOSE n \in DOMAIN dups : dup_path(n) = file_path].file)
  ELSE IF \E n \in DOMAIN dups : dups[n].file = file_path THEN 0
  ELSE Content(file_path)

\* find_media_files(work_dir, exclude_dirs) over the directory /b: the
\* orders in which os.walk may yield its media files, the files of a
\* directory before those of its subdirectories.  The .txt files of the
\* duplicates directory are no media files.  /b/m is listed when it is there
\* and unreadable (m_there), not when it is missing.
MediaFiles(m_there) ==
  IF m_there THEN { FileA, FileE, FileM, FileSA } ELSE { FileA, FileE, FileSA }

find_media_files(dups, exclude_dups, files) ==
  LET here == { f \in files : /\ Len(Path(relpath(f, work_dir)).names) = 1
                                    /\ \A n \in DOMAIN dups : dups[n].file # f }
      below == { f \in files : /\ Len(Path(relpath(f, work_dir)).names) > 1
                                     /\ \A n \in DOMAIN dups : dups[n].file # f }
      moved == IF exclude_dups THEN {} ELSE { dup_path(n) : n \in DOMAIN dups }
  IN  { t \o d \o s : t \in Orders(here), d \in Orders(moved), s \in Orders(below) }
        \cup { t \o s \o d : t \in Orders(here), d \in Orders(moved), s \in Orders(below) }

\* calculate_file_hash(file_path): [exc, val]; open() raises OSError for a
\* file that cannot be read.
calculate_file_hash(dups, file_path) ==
  IF Read(dups, file_path) = 0 THEN [exc |-> "OSError", val |-> None]
  ELSE [exc |-> "none", val |-> hexdigest(Read(dups, file_path))]

\* check_file_duplicate(file_path, db, hash_key):
\* [exc, is_duplicate, original_path, file_hash]
check_file_duplicate(st, dups, file_path, hash_key) ==
  LET h == IF hash_key = None THEN calculate_file_hash(dups, file_path)
           ELSE [exc |-> "none", val |-> hash_key]
  IN  IF h.exc # "none"
        THEN [exc |-> h.exc, is_duplicate |-> FALSE, original_path |-> None,
              file_hash |-> None]
      ELSE IF hkey(h.val) \in DOMAIN st
        THEN [exc |-> "none", is_duplicate |-> TRUE,
              original_path |-> decode(st[hkey(h.val)]), file_hash |-> h.val]
      ELSE [exc |-> "none", is_duplicate |-> FALSE, original_path |-> None,
            file_hash |-> h.val]

\* The name process_duplicate_file gives the file in the duplicates
\* directory: file_name, or the first free '<base_name>_<counter>'.
RECURSIVE unique_name(_, _, _)
unique_name(dups, file_name, counter) ==
  LET name == IF counter = 0 THEN file_name
              ELSE file_name \o Str.underscore \o << 48 + counter >>
  IN  IF name \in DOMAIN dups THEN unique_name(dups, file_name, counter + 1)
      ELSE name

\* process_duplicate_file(file_path, original_path, dups_path): the
\* duplicates directory after it, name -> [file, original_path], the file
\* moved there and the content of the .txt file written beside it.
process_duplicate_file(dups, file_path, original_path) ==
  LET name == unique_name(dups, basename(file_path), 0)
  IN  [n \in (DOMAIN dups) \cup { name } |->
         IF n = name THEN [file |-> file_path, original_path |-> original_path]
         ELSE dups[n]]

\* The body of the loop of build_hash_index for one (rel_path, full_path):
\* [exc, store, dups, processed, duplicate]; processed and duplicate are the
\* increments of the two counters.
index_file(st, dups, rebuild, rel_path, full_path) ==
  IF ~rebuild /\ fkey(rel_path) \in DOMAIN st
    THEN [exc |-> "none", store |-> st, dups |-> dups, processed |-> 1, duplicate |-> 0]
  ELSE LET c == check_file_duplicate(st, dups, full_path, None)
       IN  IF c.exc # "none"
             THEN [exc |-> c.exc, store |-> st, dups |-> dups,
                   processed |-> 0, duplicate |-> 0]
           ELSE IF c.is_duplicate
             THEN [exc |-> "none", store |-> st,
                   dups |-> process_duplicate_file(dups, full_path, c.original_path),
                   processed |-> 0, duplicate |-> 1]
           ELSE [exc |-> "none",
                 store |-> Put(Put(st, fkey(rel_path), encode(c.file_hash)),
                               hkey(c.file_hash), encode(rel_path)),
                 dups |-> dups, processed |-> 1, duplicate |-> 0]

\* The files of a media type: /b/e-acute is a video, the others are photos.
OfType(media_type, file_path) ==
  (media_type = "video") <=> (basename(file_path) = basename(FileE))

\* The loop of remove_media_files over found_files: [store, dups, removed].
\* The h: entry of the digest of the file is deleted, then the file; what
\* the body raises is caught per file.
RECURSIVE remove_files(_, _, _, _)
remove_files(st, dups, removed, found_files) ==
  IF found_files = << >> THEN [store |-> st, dups |-> dups, removed |-> removed]
  ELSE
    LET full_path == Head(found_files)
        file_hash == calculate_file_hash(dups, full_path)
    IN  IF file_hash.exc # "none"
          THEN remove_files(st, dups, removed, Tail(found_files))
        ELSE
          LET st2 == IF hkey(file_hash.val) \in DOMAIN st THEN Del(st, hkey(file_hash.val))
                     ELSE st
          IN  IF \E n \in DOMAIN dups : dup_path(n) = full_path
                THEN remove_files(st2, [n \in { m \in DOMAIN dups : dup_path(m) # full_path } |->
                                          dups[n]],
                                  removed, Tail(found_files))
              ELSE remove_files(st2, dups, removed \cup { full_path }, Tail(found_files))

\* get_new_filename(date, original_path, target_dir): the relative path
\* '<timestamp>_<new_id>' under the year and month of the date, new_id one
\* above the largest id the target directory holds for that timestamp.  The
\* files of a run carry one date; the path is written 't<new_id>'.
get_max_id_for_timestamp(out) ==
  IF DOMAIN out = {} THEN 0 ELSE CHOOSE n \in DOMAIN out : \A m \in DOMAIN out : m <= n

get_new_filename(out) == << 116, 48 + get_max_id_for_timestamp(out) + 1 >>

\* The body of the loop of relocate.process_media for one file:
\* [exc, store, out, copied, duplicate].  exc is the exception the except
\* clause of the loop catches.
relocate_file(st, dups, out, dry_run, full_path) ==
  LET new_rel_path == get_new_filename(out)
      file_hash == calculate_file_hash(dups, full_path)
      c == check_file_duplicate(st, dups, full_path, file_hash.val)
  IN  IF dry_run
        THEN [exc |-> "none", store |-> st, out |-> out, copied |-> 0, duplicate |-> 0]
      ELSE IF file_hash.exc # "none"
        THEN [exc |-> file_hash.exc, store |-> st, out |-> out,
              copied |-> 0, duplicate |-> 0]
      ELSE IF c.is_duplicate
        THEN [exc |-> "none", store |-> st, out |-> out, copied |-> 0, duplicate |-> 1]
      ELSE [exc |-> "none",
            store |-> Put(Put(st, fkey(new_rel_path), encode(file_hash.val)),
                          hkey(file_hash.val), encode(new_rel_path)),
            out |-> [n \in (DOMAIN out) \cup { get_max_id_for_timestamp(out) + 1 } |->
                       IF n \in DOMAIN out THEN out[n] ELSE full_path],
            copied |-> 1, duplicate |-> 0]

(***************************************************************************)
(* State of the process around the instance.                               *)
(*   _indexer_types   the registry, BaseIndexer._indexer_types             *)
(*   disk         the files on disk that hold databases                    *)
(*   cwd          the current directory of the process                     *)
(* History, read by the properties only:                                   *)
(*   registered   the register calls made so far, oldest first (recorded   *)
(*                by SpecRegistry only)                                    *)
(*   made         the last create call: its URI, the exception it raised,  *)
(*                the instance it returned, the scheme tokens registered   *)
(*                when it was made (known) and the number of register      *)
(*                calls recorded by then (at)                              *)
(*   cleaned      the last cleanup_uri call: its argument, the exception   *)
(*                it raised, the class whose cleanup it called, the path   *)
(*                it handed to it and the scheme tokens registered then    *)
(*   indexers     the instances the variables a and b of a caller hold,    *)
(*                each with the arguments it was created from, its _db and *)
(*                the digests registered through it (wrote)                *)
(*   job          the run of a bulk tool: the tool and its arguments, the   *)
(*                media files found, the position in the loop (pc, i), the *)
(*                handle db, the counters, the duplicates directory (dups: *)
(*                file name -> file moved there), the files moved away,    *)
(*                the files copied into the output tree (out), the files   *)
(*                whose processing raised (failed) and the exception that  *)
(*                ended the run (exc)                                      *)
(***************************************************************************)
VARIABLES _indexer_types, disk, cwd, registered, made, cleaned, indexers, job

tooling == << _indexer_types, disk, cwd, registered, made, cleaned, indexers, job >>

\* The last parse_uri call of a caller: the tokens its argument was written
\* from, the argument and the result.
VARIABLE parsed

vars == << index, tooling, parsed >>

MaxCalls == 3

Call(op, file_path, file_hash, r) ==
  [op |-> op, file_path |-> file_path, file_hash |-> file_hash, exc |-> r.exc,
   flag |-> r.flag, val |-> r.val, items |-> r.items, hashed |-> r.hashed,
   touched |-> r.touched]

\* The digest a call presents: the one given, or else the one of the file's
\* bytes (None when they cannot be read).
Presented(file_path, file_hash) ==
  IF file_hash # None THEN file_hash
  ELSE IF file_path = None THEN None
  ELSE calculate(file_path).val

NoResult(exc) == Result(exc, FALSE, None, << >>, EmptyStore, FALSE, FALSE)

Snapshot == [db |-> _db, store |-> store, gone |-> gone]

NewRun(d, st) == [d |-> d, n |-> 0, fresh |-> Key(d) \notin DOMAIN st, file |-> None]

\* The URIs and working directories the callers present.
Uri(scheme_part, fname) == scheme_part \o Str.sep \o fname
\* Filenames: "i", "j", ".", "s/i", "s\i", "/b/i".
Name ==
  [i |-> << 105 >>, j |-> << 106 >>, dot |-> << 46 >>, s_i |-> << 115, 47, 105 >>,
   s_bs_i |-> << 115, 92, 105 >>, abs |-> << 47, 98, 47, 105 >>]

\* Directories: "/b", "/b/", "/o".
Dir == [b |-> << 47, 98 >>, b_slash |-> << 47, 98, 47 >>, o |-> << 47, 111 >>]

WellFormedUris ==
  { Uri(Str.dbm, Name.i),
    Uri(Str.dbm \o Str.plus \o Str.md5, Name.i),
    Uri(Str.dbm \o Str.plus, Name.i),
    Uri(Str.dbm \o Str.plus \o Str.x, Name.i),
    Uri(Str.dbm, Name.dot),
    Uri(Str.zip, Name.i),
    Uri(Str.zip \o Str.plus \o Str.x, Name.i),
    Uri(Str.dbm, Name.s_i),
    Uri(Str.dbm, Name.s_bs_i),
    Uri(Str.dbm, Name.abs),
    Uri(Str.zip, Name.s_i),
    Uri(Str.dbm \o Str.plus \o Str.x, Name.s_i) }

MalformedUris ==
  { Str.dbm \o << 58 >> \o Name.i,
    Uri(Str.dbm, << >>),
    Uri(<< >>, Name.i) }

Uris == WellFormedUris \cup MalformedUris
Schemes == { Str.dbm, Str.zip }

\* The classes that are registered: DBMIndexer, and another subclass of
\* BaseIndexer (a test double) whose cleanup removes nothing.
Classes == { "DBMIndexer", "OtherIndexer" }

EmptyDisk == [f \in {} |-> EmptyStore]

\* The variables of a caller that hold instances, and one that holds none.
Slots == { "a", "b" }
NoHeld ==
  [inst |-> NoIndexer, work_dir |-> None, filename |-> None, _db |-> None, wrote |-> {},
   orphans |-> {}]
NoMade == [uri |-> None, exc |-> NoExc, inst |-> NoIndexer, known |-> << >>, at |-> 0]
NoCleaned == [uri |-> None, exc |-> NoExc, cls |-> "none", path |-> None, known |-> << >>]

NoParsed ==
  [s |-> None, a |-> None, f |-> None, uri |-> None,
   r |-> [exc |-> NoExc, scheme |-> None, filename |-> None, hash_algorithm |-> None]]

\* No bulk tool has run: the tree holds the files as they were put there.
EmptyDir == [n \in {} |-> << >>]
NoJob ==
  [tool |-> "none", pc |-> "idle", runs |-> 0, rebuild |-> FALSE, dry_run |-> FALSE,
   media_files |-> << >>, i |-> 1, db |-> None,
   processed_count |-> 0, copied_count |-> 0, duplicate_count |-> 0,
   dups |-> EmptyDir, out |-> EmptyDir, removed |-> {}, failed |-> {}, exc |-> NoExc,
   hash_algo |-> None, index_uri |-> None, indexer |-> NoIndexer,
   tree |-> EmptyDir, tree_before |-> EmptyDir]

\* A HashLibHasher instance passed where a str is expected.
HasherObject == << -2 >>

\* import.process_media up to BaseIndexer.create(index_uri, hasher): the
\* exception that leaves it.  index_uri None stands for the default.
import_create(types, output_dir, hash_algo, index_uri) ==
  LET uri == IF index_uri = None
               THEN Uri(Str.dbm, output_dir \o Str.slash \o Str.hash_index)
             ELSE index_uri
      hasher == HashLibHasher(hash_algo)
  IN  IF hasher.exc.type # "none" THEN Failed(hasher.exc)
      ELSE create(types, uri, HasherObject)

\* The registry once dbm_indexer.py is imported.
Imported == register(<< >>, Str.dbm, "DBMIndexer")

\* The instance as DBMIndexer.__init__ leaves it, over a backing file that
\* does not exist yet.
InitIndex(digests, modules) ==
  /\ _db = None
  /\ store = EmptyStore
  /\ module \in modules
  /\ scope = "none"
  /\ last = Call("__init__", None, None, NoResult("none"))
  /\ before = [db |-> None, store |-> EmptyStore, gone |-> "no"]
  /\ \E d \in digests : run = NewRun(d, EmptyStore)
  /\ gone = "no"
  /\ was_closed = FALSE
  /\ body_exc = "none"

\* The process around it: dbm_indexer.py imported, nothing else done.
InitProcess ==
  /\ _indexer_types = Imported
  /\ disk = EmptyDisk
  /\ cwd = work_dir
  /\ registered = << [scheme |-> Str.dbm, cls |-> "DBMIndexer"] >>
  /\ made = NoMade
  /\ cleaned = NoCleaned
  /\ indexers = [k \in Slots |-> NoHeld]
  /\ job = NoJob
  /\ parsed = NoParsed

InitFor(digests, modules) == InitIndex(digests, modules) /\ InitProcess

Init == InitFor({ hexdigest(1) }, Backends)

\* A call made in the body of a with block that raises either is handled in
\* the body (import.py catches per file) or leaves the block (view_index.py).
Escapes(exc) ==
  IF scope = "body" /\ exc # "none"
    THEN /\ scope' \in { "body", "raised" }
         /\ body_exc' = IF scope' = "raised" THEN exc ELSE body_exc
    ELSE UNCHANGED << scope, body_exc >>

Callable == scope \in { "none", "body" }

Open ==
  /\ scope = "none"
  /\ \E can_open \in BOOLEAN :
       LET r == open(_db, can_open)
       IN  /\ _db' = r.db
           /\ last' = Call("open", None, None, NoResult(r.exc))
  /\ before' = Snapshot
  /\ UNCHANGED << store, module, scope, run, gone, was_closed, body_exc >>
  /\ UNCHANGED << tooling, parsed >>

Close(life) ==
  /\ scope = "none"
  /\ _db' = close(_db)
  /\ last' = Call("close", None, None, NoResult("none"))
  /\ before' = Snapshot
  /\ was_closed' = IF life THEN was_closed \/ _db # None ELSE was_closed
  /\ UNCHANGED << store, module, scope, run, gone, body_exc >>
  /\ UNCHANGED << tooling, parsed >>

Add(runs) ==
  /\ Callable
  /\ \E file_path \in Files, file_hash \in HashArgs :
       LET r == add(_db, store, file_path, file_hash)
       IN  /\ store' = r.store
           /\ last' = Call("add", file_path, file_hash, r)
           /\ run' = IF runs THEN NewRun(run.d, r.store) ELSE run
           /\ Escapes(r.exc)
  /\ before' = Snapshot
  /\ gone' = "no"
  /\ UNCHANGED << _db, module, was_closed >>
  /\ UNCHANGED << tooling, parsed >>

AddIfAbsent(runs) ==
  /\ Callable
  /\ \E file_path \in Files, file_hash \in HashArgs :
       LET r == add_if_absent(_db, store, file_path, file_hash)
       IN  /\ store' = r.store
           /\ last' = Call("add_if_absent", file_path, file_hash, r)
           /\ run' = IF runs /\ r.exc = "none" /\ Presented(file_path, file_hash) = run.d
                       THEN [run EXCEPT !.n = IF @ < MaxCalls THEN @ + 1 ELSE @,
                                        !.file = IF run.n = 0 THEN file_path ELSE @]
                       ELSE run
           /\ Escapes(r.exc)
  /\ before' = Snapshot
  /\ gone' = "no"
  /\ UNCHANGED << _db, module, was_closed >>
  /\ UNCHANGED << tooling, parsed >>

\* add(file_path) and add_if_absent(file_path) for a file spelled with '..'
\* or relative to the current directory.
AddSpelled ==
  /\ Callable
  /\ \E file_path \in { Spelled.up, Spelled.out, Spelled.rel }, op \in { "add", "add_if_absent" } :
       LET r == IF op = "add" THEN add(_db, store, file_path, None)
                ELSE add_if_absent(_db, store, file_path, None)
       IN  /\ store' = r.store
           /\ last' = Call(op, file_path, None, r)
           /\ Escapes(r.exc)
  /\ before' = Snapshot
  /\ gone' = "no"
  /\ UNCHANGED << _db, module, run, was_closed >>
  /\ UNCHANGED << tooling, parsed >>

Get ==
  /\ Callable
  /\ \E file_path \in PathArgs, file_hash \in HashArgs :
       LET r == get(_db, store, file_path, file_hash)
       IN  /\ store' = r.store
           /\ last' = Call("get", file_path, file_hash, r)
           /\ Escapes(r.exc)
  /\ before' = Snapshot
  /\ UNCHANGED << _db, module, run, gone, was_closed >>
  /\ UNCHANGED << tooling, parsed >>

Exists ==
  /\ Callable
  /\ \E file_path \in PathArgs, file_hash \in HashArgs :
       LET r == exists(_db, store, file_path, file_hash)
       IN  /\ store' = r.store
           /\ last' = Call("exists", file_path, file_hash, r)
           /\ Escapes(r.exc)
  /\ before' = Snapshot
  /\ UNCHANGED << _db, module, run, gone, was_closed >>
  /\ UNCHANGED << tooling, parsed >>

Remove(runs) ==
  /\ Callable
  /\ \E file_path \in PathArgs, file_hash \in HashArgs :
       LET r == remove(_db, store, file_path, file_hash)
       IN  /\ store' = r.store
           /\ last' = Call("remove", file_path, file_hash, r)
           /\ run' = IF runs THEN NewRun(run.d, r.store) ELSE run
           /\ gone' = IF runs /\ r.exc = "none" /\ gone = "no"
                             /\ Presented(file_path, file_hash) = run.d
                        THEN IF Key(run.d) \in DOMAIN store
                               THEN "was_recorded" ELSE "was_absent"
                        ELSE gone
           /\ Escapes(r.exc)
  /\ before' = Snapshot
  /\ UNCHANGED << _db, module, was_closed >>
  /\ UNCHANGED << tooling, parsed >>

Limits == { NoLimit, Limit(0), Limit(1), Limit(2) }

List ==
  /\ Callable
  /\ \E n \in Limits, order \in Orders(DOMAIN store) :
       LET r == list(_db, store, module, order, n)
       IN  /\ store' = r.store
           /\ last' = Call("list", None, None, r)
           /\ Escapes(r.exc)
  /\ before' = Snapshot
  /\ UNCHANGED << _db, module, run, gone, was_closed >>
  /\ UNCHANGED << tooling, parsed >>

\* with indexer: -- entering
Enter ==
  /\ scope = "none"
  /\ \E can_open \in BOOLEAN :
       LET r == __enter__(_db, can_open)
       IN  /\ _db' = r.db
           /\ last' = Call("__enter__", None, None, NoResult(r.exc))
           /\ scope' = IF r.exc = "none" THEN "body" ELSE "none"
  /\ before' = Snapshot
  /\ body_exc' = "none"
  /\ UNCHANGED << store, module, run, gone, was_closed >>
  /\ UNCHANGED << tooling, parsed >>

\* with indexer: -- leaving, after the body completed or raised; the
\* exception is re-raised unless __exit__ returns a true value.
Exit ==
  /\ scope \in { "body", "raised" }
  /\ LET exc_type == IF scope = "raised" THEN body_exc ELSE "none"
         r == __exit__(_db, exc_type)
     IN  /\ _db' = r.db
         /\ last' = Call("__exit__", None, None,
                         NoResult(IF r.suppress THEN "none" ELSE exc_type))
  /\ scope' = "none"
  /\ before' = Snapshot
  /\ was_closed' = (was_closed \/ _db # None)
  /\ UNCHANGED << store, module, run, gone, body_exc >>
  /\ UNCHANGED << tooling, parsed >>

MaxRegistrations == 3

\* BaseIndexer.register(scheme, indexer_cls)
Register(log) ==
  /\ log => Len(registered) < MaxRegistrations
  /\ \E scheme \in Schemes, indexer_cls \in Classes :
       /\ _indexer_types' = register(_indexer_types, scheme, indexer_cls)
       /\ registered' = IF log
                          THEN Append(registered, [scheme |-> scheme, cls |-> indexer_cls])
                          ELSE registered
  /\ UNCHANGED << disk, cwd, made, cleaned, indexers, job >>
  /\ UNCHANGED << index, parsed >>

\* BaseIndexer.create(uri, work_dir)
Create(uris, wdirs) ==
  /\ \E uri \in uris, wdir \in wdirs :
       LET r == create(_indexer_types, uri, wdir)
       IN  made' = [uri |-> uri, exc |-> r.exc, inst |-> r.inst,
                    known |-> keys(_indexer_types), at |-> Len(registered)]
  /\ UNCHANGED << _indexer_types, disk, cwd, registered, cleaned, indexers, job >>
  /\ UNCHANGED << index, parsed >>

CleanupUris ==
  { Uri(Str.dbm, Name.i), Uri(Str.dbm, Name.abs), Uri(Str.zip, Name.i),
    Str.dbm \o << 58 >> \o Name.i }

\* BaseIndexer.cleanup_uri(uri)
CleanupUri ==
  /\ \E uri \in CleanupUris :
       LET r == cleanup_uri(_indexer_types, disk, cwd, uri)
       IN  /\ disk' = r.files
           /\ cleaned' = [uri |-> uri, exc |-> r.exc, cls |-> r.cls, path |-> r.path,
                          known |-> keys(_indexer_types)]
  /\ UNCHANGED << _indexer_types, cwd, registered, made, indexers, job >>
  /\ UNCHANGED << index, parsed >>

\* The tokens a caller writes a URI from: scheme tokens, algorithm tokens
\* (None: no '+' and no algorithm) and filenames, and strings without '://'.
Tokens ==
  [s |-> { Str.dbm, Str.zip, Str.x, << >> },
   a |-> { None, Str.md5, Str.sha256, Str.x, << >>, Str.md5 \o Str.plus \o Str.x },
   f |-> { Name.i, Name.s_i, << >>, Name.i \o Str.sep \o Name.j, Name.i \o Str.plus \o Name.j },
   raw |-> { << >>, Str.dbm, Str.dbm \o << 58, 47 >> \o Name.i }]

UriOf(s, a, f) == s \o (IF a = None THEN << >> ELSE Str.plus \o a) \o Str.sep \o f

\* BaseIndexer.parse_uri(uri)
ParseUri ==
  /\ \/ \E s \in Tokens.s, a \in Tokens.a, f \in Tokens.f :
          parsed' = [s |-> s, a |-> a, f |-> f, uri |-> UriOf(s, a, f),
                     r |-> parse_uri(UriOf(s, a, f))]
     \/ \E uri \in Tokens.raw :
          parsed' = [s |-> None, a |-> None, f |-> None, uri |-> uri, r |-> parse_uri(uri)]
  /\ UNCHANGED << index, tooling >>

\* The content of the database an instance addresses.
Stored(inst) ==
  IF MainFile(module, inst.db_path) \in DOMAIN disk
    THEN disk[MainFile(module, inst.db_path)] ELSE EmptyStore

Written(inst, st) ==
  [f \in (DOMAIN disk) \cup { MainFile(module, inst.db_path) } |->
     IF f = MainFile(module, inst.db_path) THEN st ELSE disk[f]]

\* The (uri, work_dir) arguments of the two create calls.
SharedArgs ==
  { << Uri(Str.dbm, Name.i), Dir.b >>,
    << Uri(Str.dbm \o Str.plus \o Str.md5, Name.i), Dir.b >>,
    << Uri(Str.dbm \o Str.plus \o Str.md5, Name.i), Dir.b_slash >>,
    << Uri(Str.dbm, Name.j), Dir.b >>,
    << Uri(Str.dbm, Name.i), Dir.o >> }

\* a = BaseIndexer.create(uri, work_dir), the variable holding no open
\* instance.
IndexerCreate(k) ==
  /\ indexers[k]._db = None
  /\ \E args \in SharedArgs :
       LET r == create(_indexer_types, args[1], args[2])
       IN  /\ r.exc.type = "none"
           /\ indexers' = [indexers EXCEPT ![k] =
                [inst |-> r.inst, work_dir |-> args[2],
                 filename |-> parse_uri(args[1]).filename, _db |-> None, wrote |-> {},
                 orphans |-> indexers[k].orphans]]
  /\ UNCHANGED << _indexer_types, disk, cwd, registered, made, cleaned, job >>
  /\ UNCHANGED << index, parsed >>

\* a.open(): dbm.open(db_path, 'c') creates the database if it is absent.
\* The callers keep to one live handle per backing file (view_index.py and
\* import.py hold one instance each).
IndexerOpen(k) ==
  /\ indexers[k].inst # NoIndexer
  /\ \A l \in Slots \ { k } :
       indexers[l]._db # None => indexers[l].inst.db_path # indexers[k].inst.db_path
  /\ \E can_open \in BOOLEAN :
       LET r == open(indexers[k]._db, can_open)
       IN  /\ indexers' = [indexers EXCEPT ![k]._db = r.db]
           /\ disk' = IF r.exc = "none" THEN Written(indexers[k].inst, Stored(indexers[k].inst))
                      ELSE disk
  /\ UNCHANGED << _indexer_types, cwd, registered, made, cleaned, job >>
  /\ UNCHANGED << index, parsed >>

\* The handles on the database at path that are open: the _db of an instance
\* a variable holds, and the handles an instance no longer refers to that
\* have not been finalized (orphans, the paths with at least one).
Live(path) ==
  Cardinality({ k \in Slots : indexers[k]._db # None /\ indexers[k].inst.db_path = path })
    + Cardinality({ k \in Slots : path \in indexers[k].orphans })

\* dbm.open(db_path, 'c') while held handles on the file are open: [exc, db].
\* dbm.gnu takes an exclusive lock on the file and raises dbm.error when it
\* is taken (errno 11); dbm.dumb takes none.
dbm_open(mod, held, db, can_open) ==
  IF mod = "gnu" /\ held > 0 THEN [exc |-> "dbm.error", db |-> db]
  ELSE open(db, can_open)

\* a.open() whatever handles are open.  self._db = dbm.open(...) drops the
\* handle self._db referred to without closing it: the object is finalized
\* (dbm.dumb closes it then) at once or when the collector finds it.
IndexerOpenAny(k) ==
  /\ indexers[k].inst # NoIndexer
  /\ \E can_open \in BOOLEAN, finalized \in BOOLEAN :
       LET me == indexers[k]
           r == dbm_open(module, Live(me.inst.db_path), me._db, can_open)
       IN  /\ indexers' = [indexers EXCEPT
                ![k]._db = r.db,
                ![k].orphans = IF r.exc = "none" /\ me._db # None /\ ~finalized
                                 THEN @ \cup { me.inst.db_path } ELSE @]
           /\ disk' = IF r.exc = "none" THEN Written(me.inst, Stored(me.inst)) ELSE disk
  /\ UNCHANGED << _indexer_types, cwd, registered, made, cleaned, job >>
  /\ UNCHANGED << index, parsed >>

\* a.close()
IndexerClose(k) ==
  /\ indexers[k].inst # NoIndexer
  /\ indexers' = [indexers EXCEPT ![k]._db = close(indexers[k]._db)]
  /\ UNCHANGED << _indexer_types, disk, cwd, registered, made, cleaned, job >>
  /\ UNCHANGED << index, parsed >>

\* a.add_if_absent(file_path), for an instance whose base directory is the
\* one of the files presented; the digest is the one a's hasher computes.
IndexerAddIfAbsent(k) ==
  /\ indexers[k].inst # NoIndexer
  /\ indexers[k].inst.base_dir = base_dir
  /\ \E file_path \in { FileA, FileM } :
       LET h == calculate_with(indexers[k].inst.algorithm, file_path)
           r == add_if_absent(indexers[k]._db, Stored(indexers[k].inst), file_path, h.val)
       IN  IF indexers[k]._db = None \/ h.exc # "none" \/ r.exc # "none"
             THEN UNCHANGED << disk, indexers >>
             ELSE /\ disk' = Written(indexers[k].inst, r.store)
                  /\ indexers' = [indexers EXCEPT ![k].wrote = @ \cup { h.val }]
  /\ UNCHANGED << _indexer_types, cwd, registered, made, cleaned, job >>
  /\ UNCHANGED << index, parsed >>

MaxRuns == 2

\* The database a legacy tool keeps at path, and the files once it holds st.
Database(files, path) ==
  IF MainFile(module, path) \in DOMAIN files THEN files[MainFile(module, path)]
  ELSE EmptyStore

WithDatabase(files, path, st) ==
  [f \in (DOMAIN files) \cup { MainFile(module, path) } |->
     IF f = MainFile(module, path) THEN st ELSE files[f]]

NewJob(tool, rebuild, dry_run, media_files) ==
  [job EXCEPT !.tool = tool, !.pc = "loop", !.runs = @ + 1, !.rebuild = rebuild,
              !.dry_run = dry_run, !.media_files = media_files, !.i = 1,
              !.db = Handle, !.processed_count = 0, !.copied_count = 0,
              !.duplicate_count = 0, !.failed = {}, !.exc = NoExc]

\* build_hash_index(work_dir, rebuild) up to its for statement: the old index
\* is deleted in rebuild mode, the database is opened (created if absent) and
\* the media files are listed.
BuildHashIndex ==
  /\ job.pc # "loop"
  /\ job.runs < MaxRuns
  /\ \E rebuild \in BOOLEAN :
       LET path == index_path(work_dir)
           there == Abs(cwd, path) \in DOMAIN disk
           first == os_remove(disk, cwd, path)
           kept == IF ~(rebuild /\ there) THEN disk
                   ELSE IF first.exc # "none" THEN disk
                   ELSE os_remove(first.files, cwd, path \o Str.db).files
       IN  /\ disk' = WithDatabase(kept, path, Database(kept, path))
           /\ \E m_there \in BOOLEAN : \E media_files \in find_media_files(job.dups, TRUE, MediaFiles(m_there) \ job.removed) :
                job' = NewJob("build_hash_index", rebuild \/ ~there, FALSE, media_files)
  /\ UNCHANGED << _indexer_types, cwd, registered, made, cleaned, indexers >>
  /\ UNCHANGED << index, parsed >>

\* One turn of the for loop of build_hash_index.  An exception raised in the
\* body leaves the loop and the function through the finally clause, which
\* closes the database.
BuildHashIndexFile ==
  /\ job.tool = "build_hash_index"
  /\ job.pc = "loop"
  /\ job.i <= Len(job.media_files)
  /\ LET full_path == job.media_files[job.i]
         path == index_path(work_dir)
         r == index_file(Database(disk, path), job.dups, job.rebuild,
                         relpath(full_path, work_dir), full_path)
     IN  IF r.exc # "none"
           THEN /\ job' = [job EXCEPT !.pc = "done", !.db = None,
                                      !.exc = Raise(r.exc, "", << >>),
                                      !.failed = @ \cup { full_path }]
                /\ UNCHANGED disk
         ELSE /\ job' = [job EXCEPT !.i = @ + 1, !.dups = r.dups,
                                    !.processed_count = @ + r.processed,
                                    !.duplicate_count = @ + r.duplicate]
              /\ disk' = WithDatabase(disk, path, r.store)
  /\ UNCHANGED << _indexer_types, cwd, registered, made, cleaned, indexers >>
  /\ UNCHANGED << index, parsed >>

\* relocate.process_media(input_dir, output_dir, dry_run) up to its for
\* statement, input_dir /b and output_dir /o.
ProcessMedia ==
  /\ job.pc # "loop"
  /\ job.runs < MaxRuns
  /\ \E dry_run \in BOOLEAN :
       /\ disk' = WithDatabase(disk, index_path(Dir.o), Database(disk, index_path(Dir.o)))
       /\ \E m_there \in BOOLEAN : \E media_files \in find_media_files(job.dups, FALSE, MediaFiles(m_there) \ job.removed) :
            job' = NewJob("relocate", FALSE, dry_run, media_files)
  /\ UNCHANGED << _indexer_types, cwd, registered, made, cleaned, indexers >>
  /\ UNCHANGED << index, parsed >>

\* One turn of the for loop of relocate.process_media.  The except clause of
\* the body catches what it raises and the loop goes on.
ProcessMediaFile ==
  /\ job.tool = "relocate"
  /\ job.pc = "loop"
  /\ job.i <= Len(job.media_files)
  /\ LET full_path == job.media_files[job.i]
         path == index_path(Dir.o)
         r == relocate_file(Database(disk, path), job.dups, job.out, job.dry_run, full_path)
     IN  /\ job' = [job EXCEPT !.i = @ + 1, !.out = r.out,
                               !.copied_count = @ + r.copied,
                               !.duplicate_count = @ + r.duplicate,
                               !.failed = IF r.exc # "none" THEN @ \cup { full_path } ELSE @]
         /\ disk' = WithDatabase(disk, path, r.store)
  /\ UNCHANGED << _indexer_types, cwd, registered, made, cleaned, indexers >>
  /\ UNCHANGED << index, parsed >>

\* remove_media_files(work_dir, media_type), the user answering the prompt:
\* nothing is done unless the file hash.index is there and the answer is y.
RemoveMediaFiles ==
  /\ job.pc # "loop"
  /\ job.runs < MaxRuns
  /\ Abs(cwd, index_path(work_dir)) \in DOMAIN disk
  /\ \E media_type \in { "video", "photo" }, confirm \in BOOLEAN, m_there \in BOOLEAN :
       \E media_files \in find_media_files(job.dups, FALSE, MediaFiles(m_there) \ job.removed) :
         LET found_files == SelectSeq(media_files, LAMBDA f : OfType(media_type, f))
             r == remove_files(Database(disk, index_path(work_dir)), job.dups, job.removed,
                               found_files)
         IN  IF found_files = << >> \/ ~confirm
               THEN /\ job' = [NewJob("remove_media_files", FALSE, FALSE, found_files) EXCEPT
                                 !.pc = "done", !.db = None]
                    /\ UNCHANGED disk
             ELSE /\ job' = [NewJob("remove_media_files", FALSE, FALSE, found_files) EXCEPT
                               !.pc = "done", !.db = None, !.dups = r.dups,
                               !.removed = r.removed]
                  /\ disk' = WithDatabase(disk, index_path(work_dir), r.store)
  /\ UNCHANGED << _indexer_types, cwd, registered, made, cleaned, indexers >>
  /\ UNCHANGED << index, parsed >>

\* The for loop of either tool is exhausted: the statistics are printed and
\* the finally clause closes the database.
EndOfRun ==
  /\ job.pc = "loop"
  /\ job.i > Len(job.media_files)
  /\ job' = [job EXCEPT !.pc = "done", !.db = None]
  /\ UNCHANGED << _indexer_types, disk, cwd, registered, made, cleaned, indexers >>
  /\ UNCHANGED << index, parsed >>

\* import.process_media(input_dir, output_dir, hash_algo, index_uri), input_dir
\* /b and output_dir /o.  BaseIndexer.create is called outside the try
\* statement, with the hasher as its work_dir; what it raises leaves the
\* function with no handle opened.  In the loop, hasher.hash_file(file) is the
\* first statement to use the file's bytes and HashLibHasher has no such
\* attribute: the AttributeError is caught per file, before add_if_absent.
ImportArgs ==
  { << Str.sha256, None >>, << Str.md5, None >>, << Str.x, None >>,
    << Str.sha256, Uri(Str.dbm, Str.hash_index) >>,
    << Str.sha256, Uri(Str.zip, Str.hash_index) >> }

ImportProcessMedia ==
  /\ job.pc # "loop"
  /\ job.runs < MaxRuns
  /\ \E args \in ImportArgs :
       LET r == import_create(_indexer_types, Dir.o, args[1], args[2])
       IN  IF r.exc.type # "none"
             THEN job' = [NewJob("import", FALSE, FALSE, << >>) EXCEPT
                            !.pc = "done", !.db = None, !.exc = r.exc,
                            !.hash_algo = args[1], !.index_uri = args[2],
                            !.indexer = r.inst]
           ELSE \E m_there \in BOOLEAN :
                  \E media_files \in find_media_files(job.dups, FALSE,
                                                      MediaFiles(m_there) \ job.removed) :
                    job' = [NewJob("import", FALSE, FALSE, media_files) EXCEPT
                              !.pc = "done", !.db = None, !.i = Len(media_files) + 1,
                              !.failed = { media_files[n] : n \in DOMAIN media_files },
                              !.hash_algo = args[1], !.index_uri = args[2],
                              !.indexer = r.inst]
  /\ UNCHANGED << _indexer_types, disk, cwd, registered, made, cleaned, indexers >>
  /\ UNCHANGED << index, parsed >>

\* One instance driven through open(), close() and every operation.
Next ==
  \/ Open
  \/ Close(FALSE)
  \/ Add(FALSE)
  \/ AddIfAbsent(FALSE)
  \/ Get
  \/ Exists
  \/ Remove(FALSE)
  \/ List

Spec == Init /\ [][Next]_vars

\* The writing operations alone, with the history of runs recorded.
NextRuns ==
  \/ Open
  \/ Close(FALSE)
  \/ Add(TRUE)
  \/ AddIfAbsent(TRUE)
  \/ Remove(TRUE)

\* list() is not called here, so one dbm module stands for all.
InitRuns == InitFor(Digests, { "dumb" })

SpecRuns == InitRuns /\ [][NextRuns]_vars

\* The life cycle: open() and close() called directly, as build_hash_index.py
\* and import.py:175 do, and with blocks whose body registers files
\* (import.py:119-163) or lists entries (view_index.py:23-33).
NextLife ==
  \/ Open
  \/ Close(TRUE)
  \/ Enter
  \/ Exit
  \/ AddIfAbsent(FALSE)
  \/ List

SpecLife == Init /\ [][NextLife]_vars

\* The files earlier runs have left on disk: the database /b/i in the format
\* of this build's dbm module, and for a dbm.gnu build a file /b/i.db.
LeftOnDisk(mod) ==
  IF mod = "gnu" THEN { Name.abs, Name.abs \o Str.db } ELSE { MainFile(mod, Name.abs) }

InitFactory ==
  /\ InitIndex({ hexdigest(1) }, Backends)
  /\ _indexer_types = Imported
  /\ disk = [f \in LeftOnDisk(module) |-> EmptyStore]
  /\ cwd \in { Dir.b, Dir.o }
  /\ registered = << >>
  /\ made = NoMade
  /\ cleaned = NoCleaned
  /\ indexers = [k \in Slots |-> NoHeld]
  /\ job = NoJob
  /\ parsed = NoParsed

\* Construction and cleanup by URI, with schemes registered in between.
NextFactory ==
  \/ Register(FALSE)
  \/ Create(Uris, { Dir.b, Dir.o })
  \/ CleanupUri

SpecFactory == InitFactory /\ [][NextFactory]_vars

\* The registry alone, with the register calls recorded.
NextRegistry ==
  \/ Register(TRUE)
  \/ Create(WellFormedUris, { Dir.b })

SpecRegistry == Init /\ [][NextRegistry]_vars

\* Two instances of one caller, used one after the other.
NextShared ==
  \/ \E k \in Slots : IndexerCreate(k)
  \/ \E k \in Slots : IndexerOpen(k)
  \/ \E k \in Slots : IndexerAddIfAbsent(k)
  \/ \E k \in Slots : IndexerClose(k)

SpecShared == Init /\ [][NextShared]_vars

\* Cleanup by URI over every combination of /b/i and /b/i.db being there.
InitCleanup ==
  /\ InitIndex({ hexdigest(1) }, Backends)
  /\ _indexer_types = Imported
  /\ \E there \in SUBSET { Name.abs, Name.abs \o Str.db } :
       disk = [f \in there |-> EmptyStore]
  /\ cwd \in { Dir.b, Dir.o }
  /\ registered = << >>
  /\ made = NoMade
  /\ cleaned = NoCleaned
  /\ indexers = [k \in Slots |-> NoHeld]
  /\ job = NoJob
  /\ parsed = NoParsed

NextCleanup ==
  \/ Register(FALSE)
  \/ CleanupUri

SpecCleanup == InitCleanup /\ [][NextCleanup]_vars

(***************************************************************************)
(* classify_media_files.py.  The tree under work_dir is a map from a path  *)
(* to [kind, was]: kind "file", "link" (a symbolic link whose target is    *)
(* missing) or "dir", was the path the entry had when the run began.       *)
(***************************************************************************)
Cls ==
  [Video |-> << 86, 105, 100, 101, 111 >>, Photo |-> << 80, 104, 111, 116, 111 >>,
   Unknown |-> << 85, 110, 107, 110, 111, 119, 110 >>,
   no_extension |-> << 110, 111, 95, 101, 120, 116, 101, 110, 115, 105, 111, 110 >>,
   a_jpg |-> << 97, 46, 106, 112, 103 >>, a_1_jpg |-> << 97, 95, 49, 46, 106, 112, 103 >>,
   v_MP4 |-> << 118, 46, 77, 80, 52 >>, n |-> << 110 >>,
   r_TXT |-> << 114, 46, 84, 88, 84 >>, s |-> << 115 >>]

IMAGE_EXTENSIONS ==
  { << 46, 106, 112, 103 >>, << 46, 106, 112, 101, 103 >>, << 46, 112, 110, 103 >>,
    << 46, 103, 105, 102 >>, << 46, 98, 109, 112 >>, << 46, 116, 105, 102, 102 >> }

VIDEO_EXTENSIONS ==
  { << 46, 109, 112, 52 >>, << 46, 109, 111, 118 >>, << 46, 97, 118, 105 >>,
    << 46, 109, 107, 118 >> }

\* s.lower(), over the ASCII letters
lower(s) == [n \in DOMAIN s |-> IF s[n] >= 65 /\ s[n] <= 90 THEN s[n] + 32 ELSE s[n]]

\* s.rfind(c) + 1: the greatest index (from 1) of c in s, 0 if none.
rfind(s, c) ==
  LET at == { n \in DOMAIN s : s[n] = c }
  IN  IF at = {} THEN 0 ELSE CHOOSE n \in at : \A m \in at : m <= n

\* Path(file_path).suffix
suffix(file_path) ==
  LET name == basename(file_path)
      i == rfind(name, 46)
  IN  IF 1 < i /\ i < Len(name) THEN SubSeq(name, i, Len(name)) ELSE << >>

is_image_file(file_path) == lower(suffix(file_path)) \in IMAGE_EXTENSIONS

is_video_file(file_path) == lower(suffix(file_path)) \in VIDEO_EXTENSIONS

\* os.path.splitext(p): [base, ext]; the dots a name begins with start no
\* extension.
splitext(p) ==
  LET sep == rfind(p, 47)
      dot == rfind(p, 46)
  IN  IF dot > sep /\ \E n \in (sep + 1)..(dot - 1) : p[n] # 46
        THEN [base |-> SubSeq(p, 1, dot - 1), ext |-> SubSeq(p, dot, Len(p))]
      ELSE [base |-> p, ext |-> << >>]

\* s.lstrip('.')
RECURSIVE lstrip(_)
lstrip(s) == IF s # << >> /\ Head(s) = 46 THEN lstrip(Tail(s)) ELSE s

\* os.path.dirname(p), p holding a slash
dirname(p) == SubSeq(p, 1, rfind(p, 47) - 1)

\* The directories above path, the root left out.
Ancestors(path) ==
  { SubSeq(path, 1, n - 1) : n \in { m \in DOMAIN path : m > 1 /\ path[m] = 47 } }

\* os.path.exists(path): a link whose target is missing does not exist.
os_path_exists(tree, path) == path \in DOMAIN tree /\ tree[path].kind # "link"

\* os.makedirs(path, exist_ok=True): [exc, tree].  It raises at the first
\* component that is there and is no directory; the directories above that
\* one have been made.
makedirs(tree, path) ==
  LET need == Ancestors(path) \cup { path }
      blocked == { d \in need : d \in DOMAIN tree /\ tree[d].kind # "dir" }
      first == CHOOSE d \in blocked : \A e \in blocked : Len(d) <= Len(e)
      created == IF blocked = {} THEN need ELSE { d \in need : Len(d) < Len(first) }
  IN  [exc |-> IF blocked = {} THEN "none" ELSE "OSError",
       tree |-> [p \in (DOMAIN tree) \cup created |->
                   IF p \in DOMAIN tree THEN tree[p] ELSE [kind |-> "dir", was |-> p]]]

\* The first '<base>_<counter><ext>' that does not exist.
RECURSIVE numbered(_, _, _)
numbered(tree, parts, counter) ==
  LET name == parts.base \o Str.underscore \o << 48 + counter >> \o parts.ext
  IN  IF os_path_exists(tree, name) THEN numbered(tree, parts, counter + 1) ELSE name

\* shutil.move(src, dst) for a dst that is no directory: os.rename, which
\* replaces an entry at dst.
move(tree, src, dst) ==
  [p \in ((DOMAIN tree) \ { src }) \cup { dst } |-> IF p = dst THEN tree[src] ELSE tree[p]]

video_dir == work_dir \o Str.slash \o Cls.Video
photo_dir == work_dir \o Str.slash \o Cls.Photo
unknown_dir == work_dir \o Str.slash \o Cls.Unknown

\* The directory classify_media_files puts full_path under.
target_dir(full_path) ==
  LET ext == lstrip(lower(splitext(full_path).ext))
  IN  IF is_video_file(full_path) THEN video_dir
      ELSE IF is_image_file(full_path) THEN photo_dir
      ELSE unknown_dir \o Str.slash \o (IF ext = << >> THEN Cls.no_extension ELSE ext)

\* The body of the loop of classify_media_files for one (rel_path,
\* full_path): [exc, tree]; an exception is printed and the loop goes on.
classify_file(tree, rel_path, full_path) ==
  LET known == is_video_file(full_path) \/ is_image_file(full_path)
      ext_dir == IF known THEN [exc |-> "none", tree |-> tree]
                 ELSE makedirs(tree, target_dir(full_path))
      target_path == target_dir(full_path) \o Str.slash \o rel_path
      parent == makedirs(ext_dir.tree, dirname(target_path))
      free == IF os_path_exists(parent.tree, target_path)
                THEN numbered(parent.tree, splitext(target_path), 1)
              ELSE target_path
  IN  IF ext_dir.exc # "none" THEN ext_dir
      ELSE IF parent.exc # "none" THEN parent
      ELSE [exc |-> "none", tree |-> move(parent.tree, full_path, free)]

\* find_all_files(work_dir, exclude_dirs): the orders in which os.walk may
\* yield the entries that are no directories and lie under no directory
\* named in exclude_dirs, those of a directory before those of its
\* subdirectories.
find_all_files(tree, exclude_dirs) ==
  LET found == { f \in DOMAIN tree :
                   /\ tree[f].kind # "dir"
                   /\ \A d \in Ancestors(f) : d # work_dir => basename(d) \notin exclude_dirs }
      here == { f \in found : dirname(f) = work_dir }
  IN  { t \o s : t \in Orders(here), s \in Orders(found \ here) }

\* The trees a run starts from: any of five files to classify, beside
\* entries already under Photo and a file named Video.
Tree(files, links) ==
  LET dirs == { work_dir } \cup UNION { Ancestors(f) : f \in files \cup links }
  IN  [p \in files \cup links \cup dirs |->
         [kind |-> IF p \in files THEN "file" ELSE IF p \in links THEN "link" ELSE "dir",
          was |-> p]]

Trees ==
  LET under(d, name) == d \o Str.slash \o name
      sources == { under(work_dir, Cls.a_jpg), under(work_dir, Cls.v_MP4),
                   under(work_dir, Cls.n), under(work_dir, Cls.r_TXT),
                   under(under(work_dir, Cls.s), Cls.a_jpg) }
      taken == { under(photo_dir, Cls.a_jpg), under(photo_dir, Cls.a_1_jpg),
                 under(photo_dir, Cls.s), video_dir }
  IN  { Tree(files \ links, links) :
          files \in SUBSET (sources \cup taken),
          links \in SUBSET { under(photo_dir, Cls.a_jpg) } }

\* classify_media_files(work_dir) up to its for statement: the three
\* directories are made and the files are listed.  An exception of
\* os.makedirs leaves the function.
ClassifyMediaFiles ==
  /\ job.tool = "none"
  /\ LET video == makedirs(job.tree, video_dir)
         photo == makedirs(video.tree, photo_dir)
         unknown == makedirs(photo.tree, unknown_dir)
         raised == IF video.exc # "none" THEN video
                   ELSE IF photo.exc # "none" THEN photo ELSE unknown
     IN  IF raised.exc # "none"
           THEN job' = [job EXCEPT !.tool = "classify_media_files", !.pc = "done",
                                   !.runs = @ + 1, !.tree = raised.tree,
                                   !.exc = Raise(raised.exc, "", << >>)]
         ELSE \E files \in find_all_files(unknown.tree, { Cls.Video, Cls.Photo, Cls.Unknown }) :
                job' = [job EXCEPT !.tool = "classify_media_files",
                                   !.pc = IF files = << >> THEN "done" ELSE "loop",
                                   !.runs = @ + 1, !.tree = unknown.tree,
                                   !.media_files = files, !.i = 1]
  /\ UNCHANGED << _indexer_types, disk, cwd, registered, made, cleaned, indexers >>
  /\ UNCHANGED << index, parsed >>

\* One iteration of the loop of classify_media_files.
ClassifyFile ==
  /\ job.tool = "classify_media_files"
  /\ job.pc = "loop"
  /\ LET full_path == job.media_files[job.i]
         r == classify_file(job.tree, relpath(full_path, work_dir), full_path)
     IN  job' = [job EXCEPT !.i = @ + 1, !.tree = r.tree,
                            !.pc = IF job.i = Len(job.media_files) THEN "done" ELSE "loop",
                            !.failed = IF r.exc # "none" THEN @ \cup { full_path } ELSE @]
  /\ UNCHANGED << _indexer_types, disk, cwd, registered, made, cleaned, indexers >>
  /\ UNCHANGED << index, parsed >>

\* One run of classify_media_files over each of the trees.
InitClassify ==
  /\ InitIndex({ hexdigest(1) }, { "gnu" })
  /\ _indexer_types = Imported
  /\ disk = EmptyDisk
  /\ cwd = work_dir
  /\ registered = << [scheme |-> Str.dbm, cls |-> "DBMIndexer"] >>
  /\ made = NoMade
  /\ cleaned = NoCleaned
  /\ indexers = [k \in Slots |-> NoHeld]
  /\ \E t \in Trees : job = [NoJob EXCEPT !.tree = t, !.tree_before = t]
  /\ parsed = NoParsed

NextClassify ==
  \/ ClassifyMediaFiles
  \/ ClassifyFile

SpecClassify == InitClassify /\ [][NextClassify]_vars

\* URIs parsed one after the other.
NextParse == ParseUri

SpecParse == Init /\ [][NextParse]_vars

\* Two instances opened and closed in any order.
NextHandles ==
  \/ \E k \in Slots : IndexerCreate(k)
  \/ \E k \in Slots : IndexerOpenAny(k)
  \/ \E k \in Slots : IndexerClose(k)

SpecHandles == Init /\ [][NextHandles]_vars

\* One instance given files in every spelling.
NextSpelled ==
  \/ Open
  \/ Add(FALSE)
  \/ AddSpelled
  \/ Remove(FALSE)

SpecSpelled == Init /\ [][NextSpelled]_vars

\* Runs of the bulk tools, one after the other, over the directory /b.
NextBulk ==
  \/ BuildHashIndex
  \/ BuildHashIndexFile
  \/ ProcessMedia
  \/ ProcessMediaFile
  \/ EndOfRun
  \/ ImportProcessMedia
  \/ RemoveMediaFiles

SpecBulk == Init /\ [][NextBulk]_vars

(***************************************************************************)
(* Properties.                                                             *)
(***************************************************************************)
WasOpen == before.db # None
Returned == last.exc = "none"
LastDigest == Presented(last.file_path, last.file_hash)
UnderBase(file_path) == _get_relative_path(file_path).exc = "none"
LookupOps == { "get", "exists", "remove" }
DataOps == { "add", "add_if_absent", "get", "exists", "remove", "list" }
SameElsewhere(d) ==
  /\ (DOMAIN store) \ { Key(d) } = (DOMAIN before.store) \ { Key(d) }
  /\ \A k \in (DOMAIN store) \ { Key(d) } : store[k] = before.store[k]

\* C1 (as amended): in a run of add_if_absent calls on an open index (no add
\* or remove call in between) that starts with the digest unrecorded, among
\* the calls that present the digest and return, the first returns
\* added = true and every later one returns added = false; each returns that
\* digest, and the path recorded for it is the relative path of the file the
\* first of them presented.
C1_AtMostOneRegistration ==
  (last.op = "add_if_absent" /\ Returned /\ LastDigest = run.d /\ run.fresh) =>
    /\ run.n = 1 => last.flag
    /\ run.n > 1 => ~last.flag
    /\ last.val = run.d
    /\ get(_db, store, None, run.d).val = _get_relative_path(run.file).val

\* C1 (as claimed): in such a run every call that presents the digest returns,
\* the first of them added = true and every later one added = false.
C1_EveryCallReturns ==
  /\ C1_AtMostOneRegistration
  /\ (last.op = "add_if_absent" /\ WasOpen /\ LastDigest = run.d /\ run.fresh) => Returned

C1_Witness ==
  /\ last.op = "add_if_absent" /\ Returned /\ LastDigest = run.d /\ run.fresh
  /\ run.n = MaxCalls
  /\ last.file_path # run.file
  /\ ~last.flag

\* C2: add_if_absent on an open index, presenting a digest that is already
\* recorded, returns (false, digest) and leaves every entry as it was.
C2_DuplicateLeavesStorage ==
  (last.op = "add_if_absent" /\ WasOpen /\ LastDigest # None
     /\ Key(LastDigest) \in DOMAIN before.store) =>
    /\ Returned
    /\ ~last.flag
    /\ last.val = LastDigest
    /\ store = before.store

C2_Witness ==
  /\ last.op = "add_if_absent" /\ WasOpen /\ LastDigest # None
  /\ Key(LastDigest) \in DOMAIN before.store
  /\ UnderBase(last.file_path)
  /\ decode(before.store[Key(LastDigest)]) # _get_relative_path(last.file_path).val
  /\ store = before.store

\* C3: add(path, digest) on an open index, for a path under the base
\* directory, returns the digest; a get(file_hash=digest) made right after it
\* returns the relative path derived from path, whether or not the digest was
\* recorded before, and the entries of all other digests are unchanged.
C3_AddThenGet ==
  (last.op = "add" /\ WasOpen /\ LastDigest # None /\ UnderBase(last.file_path)) =>
    /\ Returned
    /\ last.val = LastDigest
    /\ get(_db, store, None, LastDigest).exc = "none"
    /\ get(_db, store, None, LastDigest).val = _get_relative_path(last.file_path).val
    /\ SameElsewhere(LastDigest)

C3_Witness ==
  /\ last.op = "add" /\ WasOpen /\ last.file_hash # None /\ UnderBase(last.file_path)
  /\ Key(LastDigest) \in DOMAIN before.store
  /\ before.store[Key(LastDigest)] # store[Key(LastDigest)]
  /\ store[Key(LastDigest)] # _get_relative_path(last.file_path).val
  /\ Cardinality(DOMAIN store) = 2

\* C4: remove(file_hash=d) on an open index raises nothing; when d is recorded
\* it returns d and deletes that entry alone; when a remove call for d has
\* returned before with no add or add_if_absent call since, it returns None
\* and changes nothing.
C4_IdempotentRemove ==
  (last.op = "remove" /\ WasOpen /\ last.file_path = None /\ last.file_hash = run.d) =>
    /\ Returned
    /\ Key(run.d) \in DOMAIN before.store =>
         /\ last.val = run.d
         /\ Key(run.d) \notin DOMAIN store
         /\ SameElsewhere(run.d)
    /\ before.gone # "no" => (last.val = None /\ store = before.store)

C4_Witness ==
  /\ last.op = "remove" /\ WasOpen /\ last.file_path = None /\ last.file_hash = run.d
  /\ before.gone = "was_recorded"
  /\ last.val = None
  /\ DOMAIN store # {}

\* C5: add_if_absent on an open index with a file outside the base directory
\* fails with the path error (ValueError) and leaves storage unmodified, in
\* every storage state.
C5_OutsideBaseFails ==
  (last.op = "add_if_absent" /\ WasOpen /\ LastDigest # None
     /\ ~UnderBase(last.file_path)) =>
    /\ last.exc = "ValueError"
    /\ store = before.store

\* C6: get, exists and remove on an open index with neither file_path nor
\* file_hash raise ValueError, do not access the store, leave it unchanged
\* and leave the index open: a lookup made next is not rejected.
C6_MissingKey ==
  (last.op \in LookupOps /\ WasOpen /\ last.file_path = None /\ last.file_hash = None) =>
    /\ last.exc = "ValueError"
    /\ ~last.touched
    /\ store = before.store
    /\ _db # None
    /\ \A d \in Digests : get(_db, store, None, d).exc = "none"

C6_Witness ==
  /\ last.op = "remove" /\ WasOpen /\ last.file_path = None /\ last.file_hash = None
  /\ last.exc = "ValueError"
  /\ Cardinality(DOMAIN store) = 2

\* C7 (as claimed): get, exists and remove on an open index with both
\* file_path and file_hash raise ValueError and perform no lookup and no
\* deletion.
C7_AmbiguousKey ==
  (last.op \in LookupOps /\ WasOpen /\ last.file_path # None /\ last.file_hash # None) =>
    /\ last.exc = "ValueError"
    /\ ~last.touched
    /\ store = before.store

\* C7 (as amended): get, exists and remove on an open index with both
\* file_path and file_hash do not fail: file_hash is the key, no digest is
\* computed from file_path, and the result and the effect on the store are
\* those of the same call with file_hash alone.
C7_HashTakesPrecedence ==
  (last.op \in LookupOps /\ WasOpen /\ last.file_path # None /\ last.file_hash # None) =>
    LET alone == CASE last.op = "get" -> get(before.db, before.store, None, last.file_hash)
                   [] last.op = "exists" -> exists(before.db, before.store, None, last.file_hash)
                   [] last.op = "remove" -> remove(before.db, before.store, None, last.file_hash)
    IN  /\ Returned
        /\ ~last.hashed
        /\ last.val = alone.val
        /\ last.flag = alone.flag
        /\ store = alone.store

C7_Witness ==
  /\ last.op = "remove" /\ WasOpen
  /\ last.file_path # None /\ last.file_hash # None
  /\ calculate(last.file_path).val # last.file_hash
  /\ last.val = last.file_hash
  /\ Key(last.file_hash) \notin DOMAIN store
  /\ DOMAIN store # {}

\* C8: add, add_if_absent, get, exists, remove and list on an instance whose
\* _db is None (never opened, or closed) raise RuntimeError before any digest
\* is computed and without reading or writing the backing store.
C8_OnlyInOpen ==
  (last.op \in DataOps /\ ~WasOpen) =>
    /\ last.exc = "RuntimeError"
    /\ ~last.hashed
    /\ ~last.touched
    /\ store = before.store
    /\ _db = None

C8_Witness ==
  /\ last.op = "add_if_absent" /\ ~WasOpen
  /\ last.file_hash = None /\ calculate(last.file_path).exc = "none"
  /\ DOMAIN store # {}
  /\ last.exc = "RuntimeError"

\* C9: once close() has been called on the open instance, the instance is
\* never open again.
C9_ClosedIsTerminal == was_closed => _db = None

\* C10: in the body of a with block the instance is open; when the block is
\* left, _db is None, and the exception that left the body, if any, is the
\* one the with statement raises.
C10_ScopedAcquisition ==
  /\ scope \in { "body", "raised" } => _db # None
  /\ last.op = "__exit__" => (_db = None /\ last.exc = body_exc)

C10_Witness ==
  /\ last.op = "__exit__"
  /\ before.db # None
  /\ _db = None
  /\ last.exc = "ValueError"
  /\ DOMAIN store # {}

\* C11: on an open index, list() without a limit raises nothing and returns
\* exactly the entries stored, one (digest, relative path) pair per recorded
\* digest, in whatever order the store enumerates them; the empty sequence
\* when nothing is stored.
C11_EnumerationComplete ==
  _db # None =>
    \A order \in Orders(DOMAIN store) :
      LET r == list(_db, store, module, order, NoLimit)
      IN  /\ r.exc = "none"
          /\ Len(r.items) = Cardinality(DOMAIN store)
          /\ { r.items[i] : i \in DOMAIN r.items }
               = { << decode(k), decode(store[k]) >> : k \in DOMAIN store }

\* The parts of a URI as the grammar scheme[+algorithm]://filename names
\* them; a part that is not there is None.
HasFilenamePart(uri) == uri # None /\ contains(uri, Str.sep)
FilenamePart(uri) == split1(uri, Str.sep)[2]
SchemePart(uri) == split1(uri, Str.sep)[1]
SchemeToken(uri) == split1(SchemePart(uri), Str.plus)[1]
AlgorithmToken(uri) ==
  IF contains(SchemePart(uri), Str.plus) THEN split1(SchemePart(uri), Str.plus)[2]
  ELSE None
WellFormed(uri) == HasFilenamePart(uri) /\ SchemePart(uri) # << >> /\ FilenamePart(uri) # << >>
InSeq(x, seq) == \E i \in DOMAIN seq : seq[i] = x

\* C12: create fails with ValueError and returns no instance for every URI
\* whose filename part contains '/' or '\'.
C12_BareFilename ==
  (HasFilenamePart(made.uri)
     /\ (contains(FilenamePart(made.uri), Str.slash)
           \/ contains(FilenamePart(made.uri), Str.backslash))) =>
    /\ made.exc.type = "ValueError"
    /\ made.inst = NoIndexer

C12_Witness ==
  /\ made.uri = Uri(Str.dbm, Name.s_bs_i)
  /\ made.exc.type = "ValueError"
  /\ made.exc.values = << Name.s_bs_i >>
  /\ made.inst = NoIndexer

\* An error enumerates the scheme tokens when each of them occurs in one of
\* the values its message shows.
Enumerates(exc, known) ==
  \A i \in DOMAIN known : \E j \in DOMAIN exc.values : contains(exc.values[j], known[i])

\* C13: create and cleanup_uri, given a well-formed URI whose scheme token is
\* not registered, fail with ValueError, and the error enumerates the scheme
\* tokens registered at that moment.
C13_UnregisteredScheme ==
  /\ (WellFormed(made.uri) /\ ~InSeq(SchemeToken(made.uri), made.known)) =>
       /\ made.exc.type = "ValueError"
       /\ made.inst = NoIndexer
       /\ Enumerates(made.exc, made.known)
  /\ (WellFormed(cleaned.uri) /\ ~InSeq(SchemeToken(cleaned.uri), cleaned.known)) =>
       /\ cleaned.exc.type = "ValueError"
       /\ cleaned.cls = "none"
       /\ Enumerates(cleaned.exc, cleaned.known)

\* C14: create fails with ValueError and returns no instance for every
\* well-formed URI with a registered scheme and a bare filename whose
\* algorithm token, the empty one included, is none of md5, sha1, sha256,
\* sha512; the algorithm of every instance create returns is one of the four.
C14_UnsupportedAlgorithm ==
  LET four == { Str.md5, Str.sha1, Str.sha256, Str.sha512 }
  IN  /\ (WellFormed(made.uri) /\ InSeq(SchemeToken(made.uri), made.known)
            /\ AlgorithmToken(made.uri) # None /\ AlgorithmToken(made.uri) \notin four) =>
           /\ made.exc.type = "ValueError"
           /\ made.inst = NoIndexer
      /\ made.inst # NoIndexer => made.inst.algorithm \in four

C14_Witness ==
  /\ made.uri = Uri(Str.dbm \o Str.plus, Name.i)
  /\ made.exc.type = "ValueError"
  /\ made.exc.values[1] = << >>
  /\ made.inst = NoIndexer

\* Two instances were created over the same working directory with the same
\* filename.
SamePlace(k, l) ==
  /\ indexers[k].inst # NoIndexer
  /\ indexers[l].inst # NoIndexer
  /\ Path(indexers[k].work_dir) = Path(indexers[l].work_dir)
  /\ indexers[k].filename = indexers[l].filename

\* C15: the backing path of every instance is <work_dir>/<filename>; two
\* instances created over the same working directory with the same filename
\* have the same backing path whatever their digest algorithms, and the
\* digests registered through one of them, now closed, are recorded in the
\* index the other one has open.
C15_LocationByDirAndName ==
  /\ \A k \in Slots :
       indexers[k].inst # NoIndexer =>
         Path(indexers[k].inst.db_path)
           = Path(indexers[k].work_dir \o Str.slash \o indexers[k].filename)
  /\ \A k, l \in Slots :
       SamePlace(k, l) =>
         /\ indexers[k].inst.db_path = indexers[l].inst.db_path
         /\ (indexers[k]._db = None /\ indexers[l]._db # None) =>
              \A d \in indexers[k].wrote :
                /\ exists(indexers[l]._db, Stored(indexers[l].inst), None, d).flag
                /\ get(indexers[l]._db, Stored(indexers[l].inst), None, d).val
                     = _get_relative_path(FileA).val

C15_Witness ==
  /\ SamePlace("a", "b")
  /\ indexers["a"].inst.algorithm = Str.md5
  /\ indexers["b"].inst.algorithm = Str.sha256
  /\ indexers["a"].work_dir # indexers["b"].work_dir
  /\ indexers["a"]._db = None
  /\ indexers["a"].wrote # {}
  /\ indexers["b"]._db # None
  /\ indexers["b"].wrote # {}

\* The register calls for a scheme among the recorded ones, and the last.
Registered(log, scheme) == \E i \in DOMAIN log : log[i].scheme = scheme
LastRegistration(log, scheme) ==
  log[CHOOSE i \in DOMAIN log :
        /\ log[i].scheme = scheme
        /\ \A j \in DOMAIN log : j > i => log[j].scheme # scheme]

\* C16: after any sequence of register calls the registry binds exactly the
\* schemes registered so far, each to the class of the most recent register
\* call for it, and create instantiates the class of the most recent register
\* call for the scheme of its URI.
C16_LastRegistrationWins ==
  /\ \A scheme \in Schemes :
       /\ HasKey(_indexer_types, scheme) <=> Registered(registered, scheme)
       /\ Registered(registered, scheme) =>
            Lookup(_indexer_types, scheme) = LastRegistration(registered, scheme).cls
  /\ made.inst # NoIndexer =>
       made.inst.cls
         = LastRegistration(SubSeq(registered, 1, made.at), SchemeToken(made.uri)).cls

C16_Witness ==
  /\ Len(registered) = MaxRegistrations
  /\ registered[2] = [scheme |-> Str.zip, cls |-> "OtherIndexer"]
  /\ registered[3] = [scheme |-> Str.dbm, cls |-> "OtherIndexer"]
  /\ made.at = 3
  /\ SchemeToken(made.uri) = Str.dbm
  /\ made.inst.cls = "OtherIndexer"

\* C17: cleanup_uri(uri) hands the backend's cleanup the backing path of the
\* instance create returns for the same URI, so that the file it removes is
\* that instance's.
C17_CleanupAddressesBackingFile ==
  (cleaned.exc.type = "none" /\ made.inst # NoIndexer /\ made.uri = cleaned.uri) =>
    Abs(cwd, cleaned.path) = made.inst.db_path

\* C18: in a run of a bulk tool that has ended, a file whose processing
\* raised did not end the run: every file the walk listed has had its turn
\* in the loop, and the handle on the index is closed.
C18_PerFileFailureDoesNotAbort ==
  (job.pc = "done" /\ job.failed # {}) =>
    /\ job.i > Len(job.media_files)
    /\ job.db = None

\* C19: while the index is open, no two recorded digests map to the same
\* relative path.
C19_NoTwoDigestsShareAPath ==
  _db # None =>
    \A k, l \in DOMAIN store : store[k] = store[l] => k = l

\* C20: on an open index get(file_hash=d) returns the path stored under d, or
\* None when d is not recorded, and raises nothing; exists(file_hash=d) is
\* true exactly when that get returns a path; neither changes the store.
C20_SoftMissReadOnlyLookup ==
  (last.op \in { "get", "exists" } /\ WasOpen /\ last.file_path = None
     /\ last.file_hash # None) =>
    /\ Returned
    /\ store = before.store
    /\ _db = before.db
    /\ last.op = "get" =>
         last.val = IF Key(last.file_hash) \in DOMAIN before.store
                      THEN decode(before.store[Key(last.file_hash)])
                    ELSE None
    /\ last.op = "exists" =>
         (last.flag <=> get(before.db, before.store, None, last.file_hash).val # None)

C20_Witness ==
  /\ last.op = "get" /\ WasOpen /\ last.file_path = None /\ last.file_hash # None
  /\ Returned
  /\ last.val = None
  /\ store # EmptyStore

\* C21: add and add_if_absent on an open index, given a readable file, record
\* the resolved file path relative to the resolved directory of the backing
\* file, whatever the spelling; they reject a file path that resolves to a
\* place outside that directory; no recorded path has a '..' component.
C21_StoredPathResolved ==
  (last.op \in { "add", "add_if_absent" } /\ WasOpen /\ last.file_hash = None
     /\ Content(last.file_path) # 0) =>
    LET want == relative_to(Path(resolve(cwd, last.file_path)), Path(resolve(cwd, base_dir)))
    IN  /\ want.exc # "none" => ~Returned /\ store = before.store
        /\ want.exc = "none" =>
             /\ Returned
             /\ (last.op = "add" \/ last.flag) =>
                  decode(store[Key(last.val)]) = want.val
        /\ \A k \in DOMAIN store : ~InSeq(<< 46, 46 >>, Path(decode(store[k])).names)

\* C22: whatever the order of open() and close() calls on one instance or on
\* two instances made for the same file, at most one handle on a database is
\* open at a time, and an instance that is closed leaves none open.
C22_SingleLiveHandle ==
  \A k \in Slots :
    indexers[k].inst # NoIndexer =>
      /\ Live(indexers[k].inst.db_path) <= 1
      /\ (\A l \in Slots : indexers[l]._db = None) => Live(indexers[k].inst.db_path) = 0

\* C23: on an open index holding k entries, list(n) for a limit n >= 0
\* returns exactly min(n, k) items, each a stored (digest, path) entry, none
\* twice; list(0) returns the empty sequence.
C23_LimitOfList ==
  _db # None =>
    \A n \in Limits \ { NoLimit } : \A order \in Orders(DOMAIN store) :
      LET r == list(_db, store, module, order, n)
          k == Cardinality(DOMAIN store)
      IN  /\ r.exc = "none"
          /\ Len(r.items) = IF n.val < k THEN n.val ELSE k
          /\ \A i \in DOMAIN r.items :
               \E key \in DOMAIN store : r.items[i] = << decode(key), decode(store[key]) >>
          /\ \A i, j \in DOMAIN r.items : r.items[i] = r.items[j] => i = j

\* C24: parse_uri of 's://f' is (s, f, 'sha256') and of 's+a://f' is (s, f, a)
\* for every scheme token s, algorithm token a and non-empty filename f; a
\* URI without '://', with nothing before it or with nothing after it raises
\* ValueError("Invalid URI format: ...").
Rejected(r, uri) ==
  r.exc = Raise("ValueError", "Invalid URI format: {uri}", << uri >>)

C24_ParseUri ==
  parsed.uri # None =>
    IF parsed.s = None THEN Rejected(parsed.r, parsed.uri)
    ELSE IF (parsed.s = << >> /\ parsed.a = None) \/ parsed.f = << >>
      THEN Rejected(parsed.r, parsed.uri)
    ELSE parsed.s # << >> =>
           /\ parsed.r.exc = NoExc
           /\ parsed.r.scheme = parsed.s
           /\ parsed.r.filename = parsed.f
           /\ parsed.r.hash_algorithm = IF parsed.a = None THEN Str.sha256 ELSE parsed.a

C24_Witness ==
  /\ parsed.s = Str.zip
  /\ parsed.a = Str.md5 \o Str.plus \o Str.x
  /\ parsed.f = Name.i \o Str.sep \o Name.j
  /\ parsed.r.exc = NoExc
  /\ parsed.r.hash_algorithm = parsed.a

\* C25: whichever of <path> and <path>.db are there before it,
\* DBMIndexer.cleanup(path) raises nothing and leaves neither of them.
C25_CleanupRemovesEveryArtifact ==
  (cleaned.uri # None /\ cleaned.cls = "DBMIndexer") =>
    /\ cleaned.exc = NoExc
    /\ Abs(cwd, cleaned.path) \notin DOMAIN disk
    /\ Abs(cwd, cleaned.path \o Str.db) \notin DOMAIN disk

\* C26: close() raises nothing and leaves _db = None and the stored entries
\* as they were, on an instance never opened, on an open one and on one
\* already closed; after a with block has closed the instance, close()
\* changes nothing.
C26_CloseIdempotent ==
  last.op = "close" =>
    /\ Returned
    /\ _db = None
    /\ store = before.store
    /\ before.db = None => Snapshot = before

C26_Witness ==
  /\ last.op = "close"
  /\ before.db = None
  /\ was_closed
  /\ DOMAIN store # {}

\* C27: between runs of build_hash_index, relocate.process_media and
\* remove_media_files, every entry 'f:<path>' -> h of a database hash.index
\* has the entry 'h:<h>' -> <path>, and every 'h:<h>' -> <path> has
\* 'f:<path>' -> h.
TwoWay(st) ==
  \A k \in DOMAIN st :
    /\ SubSeq(k, 1, 2) = Str.f =>
         /\ Str.h \o st[k] \in DOMAIN st
         /\ Str.f \o st[Str.h \o st[k]] = k
    /\ SubSeq(k, 1, 2) = Str.h =>
         /\ Str.f \o st[k] \in DOMAIN st
         /\ Str.h \o st[Str.f \o st[k]] = k

C27_TwoWayConsistency ==
  job.pc # "loop" =>
    /\ TwoWay(Database(disk, index_path(work_dir)))
    /\ TwoWay(Database(disk, index_path(Dir.o)))

\* C28: import.process_media with index_uri left at its default and a
\* supported hash algorithm gets an index from BaseIndexer.create, the one
\* whose backing file is <output_dir>/hash.index, and every readable file of
\* input_dir is counted as processed or as a duplicate.
C28_ImportObtainsIndex ==
  (job.tool = "import" /\ job.pc = "done" /\ job.index_uri = None
     /\ Supported(job.hash_algo)) =>
    /\ job.exc = NoExc
    /\ job.indexer.db_path = index_path(Dir.o)
    /\ job.processed_count + job.duplicate_count
         = Cardinality({ n \in DOMAIN job.media_files : Read(job.dups, job.media_files[n]) # 0 })

\* C29: at the end of a rebuild run of build_hash_index in which nothing
\* failed, of the scanned files with one digest exactly one is still in place
\* and is the path recorded under 'h:<digest>', the others are in the
\* duplicates directory, each under a name of its own, and processed_count +
\* duplicate_count is the number of scanned files.
InPlace(file_path) == \A n \in DOMAIN job.dups : job.dups[n].file # file_path

C29_BuildPartitions ==
  (job.tool = "build_hash_index" /\ job.pc = "done" /\ job.rebuild
     /\ job.exc = NoExc /\ job.failed = {}) =>
    LET scanned == { job.media_files[n] : n \in DOMAIN job.media_files }
        st == Database(disk, index_path(work_dir))
    IN  /\ \A f \in scanned :
             LET same == { g \in scanned : Content(g) = Content(f) }
                 key == hkey(hexdigest(Content(f)))
             IN  /\ Cardinality({ g \in same : InPlace(g) }) = 1
                 /\ key \in DOMAIN st
                 /\ \E g \in same : InPlace(g) /\ st[key] = encode(relpath(g, work_dir))
                 /\ \A g \in same : ~InPlace(g) =>
                      Cardinality({ n \in DOMAIN job.dups : job.dups[n].file = g }) = 1
        /\ job.processed_count + job.duplicate_count = Len(job.media_files)

\* C30: when classify_media_files is over, every file that was outside the
\* directories named Video, Photo and Unknown is under exactly one of Video,
\* Photo and Unknown/<ext>, at its relative path or at the first free
\* '<base>_<k><ext>' when that path was taken, every file that was there
\* before is still there, and the tree holds as many files as before.
FilesOf(tree) == { p \in DOMAIN tree : tree[p].kind # "dir" }

Outside(tree) ==
  { f \in FilesOf(tree) :
      \A d \in Ancestors(f) :
        d # work_dir => basename(d) \notin { Cls.Video, Cls.Photo, Cls.Unknown } }

PlacedAt(tree, f, q) ==
  LET target_path == target_dir(f) \o Str.slash \o relpath(f, work_dir)
      parts == splitext(target_path)
      nth(k) == parts.base \o Str.underscore \o << 48 + k >> \o parts.ext
  IN  \/ q = target_path
      \/ \E k \in 1..9 : /\ q = nth(k)
                         /\ target_path \in DOMAIN tree
                         /\ \A j \in 1..(k - 1) : nth(j) \in DOMAIN tree

C30_ClassificationConservesFiles ==
  (job.tool = "classify_media_files" /\ job.pc = "done") =>
    /\ \A f \in Outside(job.tree_before) :
         /\ f \notin DOMAIN job.tree
         /\ Cardinality({ q \in FilesOf(job.tree) : job.tree[q].was = f }) = 1
         /\ \A q \in FilesOf(job.tree) : job.tree[q].was = f => PlacedAt(job.tree, f, q)
    /\ \A p \in FilesOf(job.tree_before) : \E q \in FilesOf(job.tree) : job.tree[q].was = p
    /\ Cardinality(FilesOf(job.tree)) = Cardinality(FilesOf(job.tree_before))
====
